---- MODULE Spec2Model ----
(***************************************************************************)
(* A model of cadmium: the virtual machine (vm.rs, domains.rs), its term   *)
(* and instruction domains (ir.rs), the built-ins (builtins.rs), the       *)
(* IR-generating compiler (ir_gen.rs), the AST transforms                  *)
(* (ast/transform.rs), the persistent arrays of unification.rs and the     *)
(* parsers of variables and atoms (parser.rs).                             *)
(*                                                                         *)
(* Rust indexes from 0 and TLA+ sequences from 1: the instruction at Rust  *)
(* index i of a predicate is text[pred][i + 1].  Option<T> is a sequence   *)
(* of length 0 (None) or 1 (Some).  A panic aborts the process: it is      *)
(* recorded in the variable panicked and no operation runs after it.       *)
(***************************************************************************)
EXTENDS Integers, Sequences, FiniteSets, TLC

VARIABLES
    program,    \* VM.program.text : HashMap<PredSig, Vec<Insn>>
    state,      \* VM.state : Option<State>
    panicked,   \* "" or the message of the panic that aborted the process
    output,     \* what print! has written to stdout, one entry per call
    trace,      \* history: <<predicate, index>> of every instruction fetched
    running,    \* TRUE while VM::run's loop is active
    stepcalls,  \* history: number of calls of VM::step so far
    shadow,     \* history: caller frames recorded at Call(User), popped at Ret
    frames,     \* history: frame_depth of every frame created, main's first
    minted,     \* history: the logic-variable ids the Fresh instructions pushed
    ustate,     \* a State driven directly through State::unify
    ulast,      \* the last pair of terms handed to State::unify and its result
    heap,       \* LinkedArray nodes: node id -> Arr(v) or Diff(i, x, next)
    logical,    \* history: node id -> the array the version held when created
    ast,        \* a Program<String> handed from one AST transformer to the next
    prev,       \* history: the program the last transformer was given
    pass,       \* history: the name of the last transformer applied
    irgen,      \* an IRGen: ir_code, label_counter, and the panic raised if any
    irlast,     \* history: the definitions handed to IRGen::compile_pred
    irtext,     \* Option of the text IRGen::get_ir_program returned
    pin,        \* the input handed to the parsers var and atom
    pvar,       \* Option of the result of var on pin
    patom       \* Option of the result of atom on pin

vmvars == <<program, state, panicked, output, trace, running, stepcalls, shadow,
            frames, minted>>
uvars == <<ustate, ulast>>
lavars == <<heap, logical>>
tvars == <<ast, prev, pass>>
cvars == <<irgen, irlast, irtext>>
pvars == <<pin, pvar, patom>>
vars == <<program, state, panicked, output, trace, running, stepcalls, shadow,
          frames, minted, ustate, ulast, heap, logical, ast, prev, pass, irgen, irlast, irtext,
          pin, pvar, patom>>

-----------------------------------------------------------------------------
(* Bounds of the model *)

MaxSteps == 40       \* calls of VM::step explored per run
MaxUnions == 2       \* successive State::unify calls explored on one State
MaxVersions == 3     \* LinkedArray nodes created per exploration

-----------------------------------------------------------------------------
(* ast_common.rs: predicates and signatures *)

User(name) == [sys |-> FALSE, name |-> name, sysarity |-> 0]
Sys(name, arity) == [sys |-> TRUE, name |-> name, sysarity |-> arity]
PredSig(pred, arity) == [pred |-> pred, arity |-> arity]

MainSig == PredSig(User("main"), 0)

(* ir.rs: Value *)
Atom(a) == [tag |-> "Atom", a |-> a]
LV(id) == [tag |-> "LV", id |-> id]
Num(n) == [tag |-> "Num", n |-> n]
Ctor(f, args) == [tag |-> "Ctor", f |-> f, args |-> args]

RECURSIVE fmtArgs(_, _)
RECURSIVE fmt(_)
(* impl fmt::Display for Value *)
fmt(v) ==
    CASE v.tag = "Atom" -> v.a
      [] v.tag = "LV" -> "_LV" \o ToString(v.id)
      [] v.tag = "Num" -> ToString(v.n)
      [] v.tag = "Ctor" -> fmtArgs(v.args, 1) \o v.f
fmtArgs(args, i) ==
    IF i > Len(args) THEN "" ELSE fmt(args[i]) \o fmtArgs(args, i + 1)

(* ir.rs: Insn *)
PushValue(v) == [op |-> "PushValue", v |-> v]
Pop == [op |-> "Pop"]
Dup == [op |-> "Dup"]
Fresh == [op |-> "Fresh"]
Load(n) == [op |-> "Load", n |-> n]
Store(n) == [op |-> "Store", n |-> n]
Construct(f, n) == [op |-> "Construct", f |-> f, n |-> n]
Unify == [op |-> "Unify"]
MkCheckpoint(label, offset) == [op |-> "MkCheckpoint", label |-> label, offset |-> offset]
Jump(offset) == [op |-> "Jump", offset |-> offset]
Call(sig) == [op |-> "Call", sig |-> sig]
Det(label) == [op |-> "Det", label |-> label]
DetUntil(label) == [op |-> "DetUntil", label |-> label]
Fail == [op |-> "Fail"]
Ret == [op |-> "Ret"]
Halt == [op |-> "Halt"]

-----------------------------------------------------------------------------
(* Finite maps (im_rc::HashMap, the substitution) *)

EmptyMap == [k \in {} |-> 0]
MapUpdate(m, k, v) == [j \in DOMAIN m \cup {k} |-> IF j = k THEN v ELSE m[j]]

-----------------------------------------------------------------------------
(* The binding store as a value: a finite map from logic-variable ids to   *)
(* terms.  Unification::union and Unification::find are called by          *)
(* domains.rs and main.rs but are not implemented in unification.rs; they  *)
(* are modelled from sections 4.1 of the specification.                    *)

Unification_new == EmptyMap

RECURSIVE find(_, _)
find(b, t) ==
    IF t.tag = "LV" /\ t.id \in DOMAIN b /\ b[t.id] # t
    THEN find(b, b[t.id])
    ELSE t

UnionOk(b) == [ok |-> TRUE, b |-> b]
UnionFail == [ok |-> FALSE, b |-> EmptyMap]

RECURSIVE union(_, _, _)
RECURSIVE unionArgs(_, _, _, _)
(* a faulty variant of union: the two terms are not resolved with find *)
union_binds_unresolved(b, x, y) ==
    IF x = y THEN UnionOk(b)
    ELSE IF x.tag = "LV" THEN UnionOk(MapUpdate(b, x.id, y))
    ELSE IF y.tag = "LV" THEN UnionOk(MapUpdate(b, y.id, x))
    ELSE IF /\ x.tag = "Ctor" /\ y.tag = "Ctor"
            /\ x.f = y.f /\ Len(x.args) = Len(y.args)
         THEN unionArgs(b, x.args, y.args, 1)
    ELSE UnionFail

(* a faulty variant of union: the fold over the arguments starts at the second *)
union_skips_first(b, x, y) ==
    LET xr == find(b, x)
        yr == find(b, y)
    IN  IF xr = yr THEN UnionOk(b)
        ELSE IF xr.tag = "LV" THEN UnionOk(MapUpdate(b, xr.id, yr))
        ELSE IF yr.tag = "LV" THEN UnionOk(MapUpdate(b, yr.id, xr))
        ELSE IF /\ xr.tag = "Ctor" /\ yr.tag = "Ctor"
                /\ xr.f = yr.f /\ Len(xr.args) = Len(yr.args)
             THEN unionArgs(b, xr.args, yr.args, 2)
        ELSE UnionFail

union(b, x, y) ==
    LET xr == find(b, x)
        yr == find(b, y)
    IN  IF xr = yr THEN UnionOk(b)
        ELSE IF xr.tag = "LV" THEN UnionOk(MapUpdate(b, xr.id, yr))
        ELSE IF yr.tag = "LV" THEN UnionOk(MapUpdate(b, yr.id, xr))
        ELSE IF /\ xr.tag = "Ctor" /\ yr.tag = "Ctor"
                /\ xr.f = yr.f /\ Len(xr.args) = Len(yr.args)
             THEN unionArgs(b, xr.args, yr.args, 1)
        ELSE UnionFail
(* the left-to-right fold over the argument pairs from index i on *)
unionArgs(b, xs, ys, i) ==
    IF i > Len(xs) THEN UnionOk(b)
    ELSE LET r == union(b, xs[i], ys[i])
         IN  IF r.ok THEN unionArgs(r.b, xs, ys, i + 1) ELSE UnionFail

-----------------------------------------------------------------------------
(* domains.rs: LocalState *)

LocalState_new(predicate, frame_depth) ==
    [locals |-> EmptyMap, op_stack |-> <<>>,
     predicate |-> predicate, frame_depth |-> frame_depth]

push_value(ls, v) == [ls EXCEPT !.op_stack = Append(@, v)]

(* the three below are used where their unwrap / split_off cannot panic;   *)
(* VM_next tests the panic condition before it applies them                *)
dup(ls) == [ls EXCEPT !.op_stack = Append(@, @[Len(@)])]

load(ls, pv) == [ls EXCEPT !.op_stack = Append(@, ls.locals[pv])]

store(ls, pv) ==
    [ls EXCEPT !.locals = MapUpdate(@, pv, ls.op_stack[Len(ls.op_stack)]),
               !.op_stack = SubSeq(@, 1, Len(@) - 1)]

(* Vec::pop: the rest of the stack; None on an empty stack leaves it empty *)
pop(ls) == [ls EXCEPT !.op_stack = SubSeq(@, 1, Len(@) - 1)]

(* pop_n: the last n values in stack order, and the frame without them *)
pop_n_args(ls, n) == SubSeq(ls.op_stack, Len(ls.op_stack) - n + 1, Len(ls.op_stack))
pop_n_rest(ls, n) == [ls EXCEPT !.op_stack = SubSeq(@, 1, Len(@) - n)]

-----------------------------------------------------------------------------
(* domains.rs: State.  cp_stack and call_stack grow at the end (Vec::push) *)

State_new ==
    [local_state |-> LocalState_new(MainSig, 0),
     bindings |-> Unification_new,
     cp_stack |-> <<>>,
     pc |-> 0,
     call_stack |-> <<>>,
     gen_idx |-> 0,
     unify_count |-> 0]

(* the result of an operation that consumes a State: Option<State>, the    *)
(* panic it raised if any, and what it printed                             *)
Some(s) == [st |-> <<s>>, panic |-> "", out |-> <<>>]
None == [st |-> <<>>, panic |-> "", out |-> <<>>]
Panic(msg) == [st |-> <<>>, panic |-> msg, out |-> <<>>]

fresh_lv(s) == [s EXCEPT !.gen_idx = @ + 1]

(* a faulty variant of ret: the caller's frame is not put back *)
ret_keeps_frame(s) ==
    IF s.call_stack = <<>> THEN None
    ELSE LET top == s.call_stack[Len(s.call_stack)]
         IN  Some([s EXCEPT !.call_stack = SubSeq(@, 1, Len(@) - 1),
                            !.pc = top[2]])

ret(s) ==
    IF s.call_stack = <<>> THEN None
    ELSE LET top == s.call_stack[Len(s.call_stack)]
         IN  Some([s EXCEPT !.call_stack = SubSeq(@, 1, Len(@) - 1),
                            !.local_state = top[1],
                            !.pc = top[2]])

(* a faulty variant of load_checkpoint: the counter of logic variables is   *)
(* taken back by one                                                       *)
load_checkpoint_rewinds_counter(s, cp) ==
    [s EXCEPT !.local_state = cp.local_state,
              !.bindings = cp.bindings,
              !.pc = cp.pc,
              !.call_stack = cp.call_stack,
              !.gen_idx = IF @ > 0 THEN @ - 1 ELSE 0]

(* a faulty variant of load_checkpoint: the substitution is not restored *)
load_checkpoint_keeps_bindings(s, cp) ==
    [s EXCEPT !.local_state = cp.local_state,
              !.pc = cp.pc,
              !.call_stack = cp.call_stack]

load_checkpoint(s, cp) ==
    [s EXCEPT !.local_state = cp.local_state,
              !.bindings = cp.bindings,
              !.pc = cp.pc,
              !.call_stack = cp.call_stack]

(* a faulty variant of load_next_checkpoint: with no checkpoint left the state is kept *)
load_next_checkpoint_stays(s) ==
    IF s.cp_stack = <<>> THEN Some(s)
    ELSE LET cp == s.cp_stack[Len(s.cp_stack)]
         IN  Some([s EXCEPT !.cp_stack = SubSeq(@, 1, Len(@) - 1),
                            !.local_state = cp.local_state,
                            !.bindings = cp.bindings,
                            !.pc = cp.pc,
                            !.call_stack = cp.call_stack])

load_next_checkpoint(s) ==
    IF s.cp_stack = <<>> THEN None
    ELSE LET cp == s.cp_stack[Len(s.cp_stack)]
         IN  Some(load_checkpoint(
                    [s EXCEPT !.cp_stack = SubSeq(@, 1, Len(@) - 1)], cp))

unify(s) ==
    IF Len(s.local_state.op_stack) < 2
    THEN Panic("Not enough values to unify!")
    ELSE LET n == Len(s.local_state.op_stack)
             x == s.local_state.op_stack[n]
             y == s.local_state.op_stack[n - 1]
             popped == [s EXCEPT !.local_state = pop(pop(@))]
             r == union(s.bindings, x, y)
         IN  IF r.ok
             THEN Some([popped EXCEPT !.bindings = r.b,
                                      !.unify_count = @ + 1])
             ELSE load_next_checkpoint(popped)

(* a faulty variant of call_user: the new frame gets the caller's depth *)
call_user_keeps_depth(s, sig) ==
    [s EXCEPT !.local_state = LocalState_new(sig, s.local_state.frame_depth),
              !.call_stack = Append(@, <<s.local_state, s.pc>>),
              !.pc = 0]

call_user(s, sig) ==
    [s EXCEPT !.local_state = LocalState_new(sig, s.local_state.frame_depth + 1),
              !.call_stack = Append(@, <<s.local_state, s.pc>>),
              !.pc = 0]

-----------------------------------------------------------------------------
(* builtins.rs *)

BuiltIns_exists(name, arity) == name = "print" /\ arity = 1

(* print/1: writes args[0] with Display and succeeds *)
BuiltIn_print(args, s) == [ok |-> TRUE, st |-> s, out |-> <<fmt(args[1])>>]

-----------------------------------------------------------------------------
(* vm.rs *)

(* MkCheckpoint as the source has it: a placeholder *)
MkCheckpoint_unimplemented(s, insn) == Panic("not implemented")

(* MkCheckpoint as section 4.4 of the specification fixes it: snapshot     *)
(* the frame, the call stack and the substitution, with the resume PC      *)
(* current PC + offset, labelled (frame_depth, label)                      *)
MkCheckpoint_exec(s, insn) ==
    Some([s EXCEPT !.cp_stack = Append(@,
            [label |-> <<s.local_state.frame_depth, insn.label>>,
             local_state |-> s.local_state,
             bindings |-> s.bindings,
             pc |-> s.pc + insn.offset,
             call_stack |-> s.call_stack])])

(* modify_then_pack *)
WithLocal(s, ls) == Some([s EXCEPT !.local_state = ls])

(* VM::next on the program text and a State; cps tells whether MkCheckpoint *)
(* is the specified handler (TRUE) or the source's placeholder (FALSE)      *)
VM_next(text, s0, cps) ==
    LET s == [s0 EXCEPT !.pc = @ + 1]
        ls == s.local_state
        depth == Len(ls.op_stack)
    IN  IF ls.predicate \notin DOMAIN text
        THEN Panic("no entry found for key")
        ELSE IF s.pc >= Len(text[ls.predicate])
        THEN Panic("index out of bounds")
        ELSE LET insn == text[ls.predicate][s.pc + 1]
        IN  CASE insn.op = "PushValue" -> WithLocal(s, push_value(ls, insn.v))
              [] insn.op = "Pop" ->
                    IF depth = 0 THEN Some(s) ELSE WithLocal(s, pop(ls))
              [] insn.op = "Dup" ->
                    IF depth = 0 THEN Panic("called Option::unwrap() on a None value")
                    ELSE WithLocal(s, dup(ls))
              [] insn.op = "Fresh" ->
                    LET t == fresh_lv(s)
                    IN  WithLocal(t, push_value(ls, LV(t.gen_idx)))
              [] insn.op = "Load" ->
                    IF insn.n \notin DOMAIN ls.locals
                    THEN Panic("called Option::unwrap() on a None value")
                    ELSE WithLocal(s, load(ls, insn.n))
              [] insn.op = "Store" ->
                    IF depth = 0 THEN Panic("called Option::unwrap() on a None value")
                    ELSE WithLocal(s, store(ls, insn.n))
              [] insn.op = "Construct" ->
                    IF depth < insn.n THEN Panic("attempt to subtract with overflow")
                    ELSE WithLocal(s, push_value(pop_n_rest(ls, insn.n),
                                                 Ctor(insn.f, pop_n_args(ls, insn.n))))
              [] insn.op = "Unify" -> unify(s)
              [] insn.op = "MkCheckpoint" ->
                    IF cps THEN MkCheckpoint_exec(s, insn)
                    ELSE MkCheckpoint_unimplemented(s, insn)
              [] insn.op = "Jump" -> Some([s EXCEPT !.pc = insn.offset + s.pc])
              [] insn.op = "Call" /\ ~insn.sig.pred.sys ->
                    Some(call_user(s, PredSig(insn.sig.pred, insn.sig.arity)))
              [] insn.op = "Call" /\ insn.sig.pred.sys ->
                    IF BuiltIns_exists(insn.sig.pred.name, insn.sig.pred.sysarity)
                    THEN IF depth < insn.sig.pred.sysarity
                         THEN Panic("attempt to subtract with overflow")
                         ELSE LET args == pop_n_args(ls, insn.sig.pred.sysarity)
                                  t == [s EXCEPT !.local_state =
                                            pop_n_rest(ls, insn.sig.pred.sysarity)]
                                  r == BuiltIn_print(args, t)
                              IN  IF r.ok
                                  THEN [st |-> <<r.st>>, panic |-> "", out |-> r.out]
                                  ELSE [load_next_checkpoint(r.st) EXCEPT !.out = r.out]
                    ELSE Panic("The built-in predicate does not exist")
              [] insn.op = "Det" -> Panic("not implemented")
              [] insn.op = "DetUntil" -> Panic("not implemented")
              [] insn.op = "Fail" -> load_next_checkpoint(s)
              [] insn.op = "Ret" -> ret(s)
              [] insn.op = "Halt" -> Some(s)

(* VM::control: the instruction at the current PC; it indexes the text, so *)
(* it panics where the index is out of range                               *)
control_ok(text, s) ==
    /\ s.local_state.predicate \in DOMAIN text
    /\ s.pc < Len(text[s.local_state.predicate])
control(text, s) == text[s.local_state.predicate][s.pc + 1]

-----------------------------------------------------------------------------
(* ast.rs: Expr, Stmt, PredDef *)

Expr_Atom(a) == [e |-> "Atom", a |-> a]
Expr_PV(x) == [e |-> "PV", x |-> x]
Expr_Num(n) == [e |-> "Num", n |-> n]
Expr_Ctor(f, args) == [e |-> "Ctor", f |-> f, args |-> args]

Stmt_And(s1, s2) == [t |-> "And", s1 |-> s1, s2 |-> s2]
Stmt_Or(s1, s2) == [t |-> "Or", s1 |-> s1, s2 |-> s2]
Stmt_If(s1, s2, s3) == [t |-> "If", s1 |-> s1, s2 |-> s2, s3 |-> s3]
Stmt_Unify(e1, e2) == [t |-> "Unify", e1 |-> e1, e2 |-> e2]
Stmt_Call(p, args) == [t |-> "Call", p |-> p, args |-> args]
Stmt_Fail == [t |-> "Fail"]
Stmt_True == [t |-> "True"]

PredDef(name, params, body) == [name |-> name, params |-> params, body |-> body]

(* PredDef::sig is called by ir_gen.rs and is not defined in ast.rs:       *)
(* section 3, a signature is the pair (identity, arity)                    *)
PredDef_sig(pred_def) == PredSig(pred_def.name, Len(pred_def.params))

-----------------------------------------------------------------------------
(* ast/transform.rs: ConsolidateDefs *)

(* the clauses of one (name, arity) key, in source order *)
RECURSIVE ClausesOf(_, _, _)
ClausesOf(prog, key, i) ==
    IF i > Len(prog) THEN <<>>
    ELSE (IF <<prog[i].name, Len(prog[i].params)>> = key
          THEN <<prog[i]>> ELSE <<>>) \o ClausesOf(prog, key, i + 1)

(* the keys of defs, each once; a HashMap iterates in an unspecified       *)
(* order, here the order of first occurrence                               *)
RECURSIVE DefKeys(_, _, _)
DefKeys(prog, i, seen) ==
    IF i > Len(prog) THEN <<>>
    ELSE LET key == <<prog[i].name, Len(prog[i].params)>>
         IN  IF key \in seen THEN DefKeys(prog, i + 1, seen)
             ELSE <<key>> \o DefKeys(prog, i + 1, seen \cup {key})

(* (1..n_args).map(|i| PV(format!("_P{}", i))): a Rust range excludes its end *)
ConsolidateDefs_params(n_args) ==
    [i \in 1..(n_args - 1) |-> Expr_PV("_P" \o ToString(i))]

(* params.iter().zip(clause_params).fold(True, ...) from pair i on *)
RECURSIVE param_assignment(_, _, _, _)
param_assignment(acc, params, clause_params, i) ==
    IF i > Len(params) \/ i > Len(clause_params) THEN acc
    ELSE param_assignment(Stmt_And(acc, Stmt_Unify(params[i], clause_params[i])),
                          params, clause_params, i + 1)

(* bodies.into_iter().fold(Fail, ...) from clause i on *)
RECURSIVE new_body(_, _, _, _)
new_body(acc, params, clauses, i) ==
    IF i > Len(clauses) THEN acc
    ELSE new_body(
            Stmt_Or(acc, Stmt_And(
                param_assignment(Stmt_True, params, clauses[i].params, 1),
                clauses[i].body)),
            params, clauses, i + 1)

ConsolidateDefs_transform(prog) ==
    LET keys == DefKeys(prog, 1, {})
    IN  [k \in 1..Len(keys) |->
            LET params == ConsolidateDefs_params(keys[k][2])
            IN  PredDef(keys[k][1], params,
                        new_body(Stmt_Fail, params, ClausesOf(prog, keys[k], 1), 1))]

-----------------------------------------------------------------------------
(* ast/transform.rs: UnderscoreElim.  The counter is threaded through the  *)
(* traversal: each operator takes it and returns it with the new node      *)

gen_var(c) == [c |-> c + 1, x |-> "_G" \o ToString(c + 1)]

RECURSIVE UE_transform_expr(_, _)
RECURSIVE UE_transform_exprs(_, _, _)
UE_transform_expr(c, expr) ==
    CASE expr.e = "PV" /\ expr.x = "_" ->
            LET g == gen_var(c) IN [c |-> g.c, n |-> Expr_PV(g.x)]
      [] expr.e = "Ctor" ->
            LET r == UE_transform_exprs(c, expr.args, 1)
            IN  [c |-> r.c, n |-> Expr_Ctor(expr.f, r.n)]
      [] OTHER -> [c |-> c, n |-> expr]
UE_transform_exprs(c, es, i) ==
    IF i > Len(es) THEN [c |-> c, n |-> es]
    ELSE LET r == UE_transform_expr(c, es[i])
         IN  UE_transform_exprs(r.c, [es EXCEPT ![i] = r.n], i + 1)

RECURSIVE UE_transform_stmt(_, _)
UE_transform_stmt(c, stmt) ==
    CASE stmt.t \in {"And", "Or"} ->
            LET r1 == UE_transform_stmt(c, stmt.s1)
                r2 == UE_transform_stmt(r1.c, stmt.s2)
            IN  [c |-> r2.c, n |-> [stmt EXCEPT !.s1 = r1.n, !.s2 = r2.n]]
      [] stmt.t = "If" ->
            LET r1 == UE_transform_stmt(c, stmt.s1)
                r2 == UE_transform_stmt(r1.c, stmt.s2)
                r3 == UE_transform_stmt(r2.c, stmt.s3)
            IN  [c |-> r3.c, n |-> Stmt_If(r1.n, r2.n, r3.n)]
      [] stmt.t = "Unify" ->
            LET r1 == UE_transform_expr(c, stmt.e1)
                r2 == UE_transform_expr(r1.c, stmt.e2)
            IN  [c |-> r2.c, n |-> Stmt_Unify(r1.n, r2.n)]
      [] stmt.t = "Call" ->
            LET r == UE_transform_exprs(c, stmt.args, 1)
            IN  [c |-> r.c, n |-> Stmt_Call(stmt.p, r.n)]
      [] OTHER -> [c |-> c, n |-> stmt]

UE_transform_pred(c, pred_def) ==
    LET r1 == UE_transform_exprs(c, pred_def.params, 1)
        r2 == UE_transform_stmt(r1.c, pred_def.body)
    IN  [c |-> r2.c, n |-> PredDef(pred_def.name, r1.n, r2.n)]

RECURSIVE UE_transform_from(_, _, _)
UE_transform_from(c, prog, i) ==
    IF i > Len(prog) THEN prog
    ELSE LET r == UE_transform_pred(c, prog[i])
         IN  UE_transform_from(r.c, [prog EXCEPT ![i] = r.n], i + 1)

UnderscoreElim_transform(prog) == UE_transform_from(0, prog, 1)

-----------------------------------------------------------------------------
(* EnumerateVariables is used by main.rs and is not defined in             *)
(* ast/transform.rs: section 4.2.3, a dense index per distinct name,       *)
(* scoped per predicate definition; here in order of first occurrence,     *)
(* from 0                                                                  *)

RECURSIVE Expr_pvs(_)
RECURSIVE Exprs_pvs(_, _)
Expr_pvs(expr) ==
    CASE expr.e = "PV" -> <<expr.x>>
      [] expr.e = "Ctor" -> Exprs_pvs(expr.args, 1)
      [] OTHER -> <<>>
Exprs_pvs(es, i) ==
    IF i > Len(es) THEN <<>> ELSE Expr_pvs(es[i]) \o Exprs_pvs(es, i + 1)

RECURSIVE Stmt_pvs(_)
Stmt_pvs(stmt) ==
    CASE stmt.t \in {"And", "Or"} -> Stmt_pvs(stmt.s1) \o Stmt_pvs(stmt.s2)
      [] stmt.t = "If" -> Stmt_pvs(stmt.s1) \o Stmt_pvs(stmt.s2) \o Stmt_pvs(stmt.s3)
      [] stmt.t = "Unify" -> Expr_pvs(stmt.e1) \o Expr_pvs(stmt.e2)
      [] stmt.t = "Call" -> Exprs_pvs(stmt.args, 1)
      [] OTHER -> <<>>

(* the index of name x: the number of distinct names before its first occurrence *)
VarIndex(names, x) ==
    LET first == CHOOSE i \in 1..Len(names) :
                    names[i] = x /\ \A j \in 1..(i - 1) : names[j] # x
    IN  Cardinality({names[j] : j \in 1..(first - 1)})

RECURSIVE EV_expr(_, _)
EV_expr(names, expr) ==
    CASE expr.e = "PV" -> Expr_PV(VarIndex(names, expr.x))
      [] expr.e = "Ctor" ->
            Expr_Ctor(expr.f, [i \in 1..Len(expr.args) |-> EV_expr(names, expr.args[i])])
      [] OTHER -> expr

RECURSIVE EV_stmt(_, _)
EV_stmt(names, stmt) ==
    CASE stmt.t \in {"And", "Or"} ->
            [stmt EXCEPT !.s1 = EV_stmt(names, stmt.s1), !.s2 = EV_stmt(names, stmt.s2)]
      [] stmt.t = "If" ->
            Stmt_If(EV_stmt(names, stmt.s1), EV_stmt(names, stmt.s2),
                    EV_stmt(names, stmt.s3))
      [] stmt.t = "Unify" ->
            Stmt_Unify(EV_expr(names, stmt.e1), EV_expr(names, stmt.e2))
      [] stmt.t = "Call" ->
            Stmt_Call(stmt.p, [i \in 1..Len(stmt.args) |-> EV_expr(names, stmt.args[i])])
      [] OTHER -> stmt

EnumerateVariables_transform(prog) ==
    [k \in 1..Len(prog) |->
        LET names == Exprs_pvs(prog[k].params, 1) \o Stmt_pvs(prog[k].body)
        IN  PredDef(prog[k].name,
                    [i \in 1..Len(prog[k].params) |-> EV_expr(names, prog[k].params[i])],
                    EV_stmt(names, prog[k].body))]

-----------------------------------------------------------------------------
(* ast/transform.rs: IdempotentElim, with Stmt::traverse_mut of ast.rs *)

(* a faulty variant of the closure: And(s, True) is left as it is *)
IE_rewrite_keeps_right_true(s) ==
    CASE s.t = "And" /\ s.s1 = Stmt_True -> s.s2
      [] s.t = "Or" /\ s.s1 = Stmt_Fail -> s.s2
      [] s.t = "Or" /\ s.s2 = Stmt_Fail -> s.s1
      [] s.t = "If" /\ s.s1 = Stmt_Fail -> s.s3
      [] s.t = "If" /\ s.s1 = Stmt_True -> s.s2
      [] OTHER -> s

(* the closure of transform_stmt, applied to one node *)
IE_rewrite(s) ==
    CASE s.t = "And" /\ s.s1 = Stmt_True -> s.s2
      [] s.t = "And" /\ s.s2 = Stmt_True -> s.s1
      [] s.t = "Or" /\ s.s1 = Stmt_Fail -> s.s2
      [] s.t = "Or" /\ s.s2 = Stmt_Fail -> s.s1
      [] s.t = "If" /\ s.s1 = Stmt_Fail -> s.s3
      [] s.t = "If" /\ s.s1 = Stmt_True -> s.s2
      [] OTHER -> s

(* traverse_mut: the children first, then the node itself *)
RECURSIVE IE_transform_stmt(_)
IE_transform_stmt(stmt) ==
    CASE stmt.t \in {"And", "Or"} ->
            IE_rewrite([stmt EXCEPT !.s1 = IE_transform_stmt(stmt.s1),
                                    !.s2 = IE_transform_stmt(stmt.s2)])
      [] stmt.t = "If" ->
            IE_rewrite(Stmt_If(IE_transform_stmt(stmt.s1), IE_transform_stmt(stmt.s2),
                               IE_transform_stmt(stmt.s3)))
      [] OTHER -> IE_rewrite(stmt)

IdempotentElim_transform(prog) ==
    [k \in 1..Len(prog) |-> [prog[k] EXCEPT !.body = IE_transform_stmt(@)]]

-----------------------------------------------------------------------------
(* ir_gen.rs: IRGen.  g is the compiler while it works on one predicate:   *)
(* current_ir_code, label_counter and the panic raised if any              *)

RECURSIVE compile_expr(_)
RECURSIVE compile_exprs(_, _)
compile_expr(expr) ==
    CASE expr.e = "Atom" -> <<PushValue(Atom(expr.a))>>
      [] expr.e = "PV" -> <<Load(expr.x)>>
      [] expr.e = "Num" -> <<PushValue(Num(expr.n))>>
      [] expr.e = "Ctor" ->
            compile_exprs(expr.args, 1) \o <<Construct(expr.f, Len(expr.args))>>
(* the code of the expressions es[i], es[i+1], ... in that order *)
compile_exprs(es, i) ==
    IF i > Len(es) THEN <<>> ELSE compile_expr(es[i]) \o compile_exprs(es, i + 1)

(* the code of the expressions es[i], ..., es[1]: args.into_iter().rev() *)
RECURSIVE compile_exprs_rev(_, _)
compile_exprs_rev(es, i) ==
    IF i < 1 THEN <<>> ELSE compile_expr(es[i]) \o compile_exprs_rev(es, i - 1)

Emit(g, insns) == [g EXCEPT !.code = @ \o insns]

(* Insn::set_target on the instruction at Rust index at *)
set_target(g, at, target) ==
    IF g.code[at + 1].op \in {"MkCheckpoint", "Jump"}
    THEN [g EXCEPT !.code[at + 1].offset = target]
    ELSE [g EXCEPT !.panic =
            "Tried to set the target of a non-jump, non-checkpoint instruction"]

create_checkpoint(g) ==
    [g EXCEPT !.label_counter = @ + 1,
              !.code = Append(@, MkCheckpoint(g.label_counter + 1, 0))]

RECURSIVE compile_params(_, _, _)
compile_params(g, params, i) ==
    IF i > Len(params) THEN g
    ELSE compile_params(Emit(g, compile_expr(params[i]) \o <<Unify>>), params, i + 1)

(* a faulty variant of cp_target_offset: the distance to the instruction   *)
(* after the one about to be pushed                                        *)
cp_target_offset_past_jump(g, cp_pc) == Len(g.code) - cp_pc + 1

(* (self.current_ir_code.len() - cp_pc) as isize, once s1 is compiled *)
cp_target_offset(g, cp_pc) == Len(g.code) - cp_pc

(* (self.current_ir_code.len() - jump_pc) as isize, once s2 is compiled *)
jump_target_offset(g, jump_pc) == Len(g.code) - jump_pc

RECURSIVE compile_stmt(_, _)
compile_stmt(g, stmt) ==
    IF g.panic # "" THEN g
    ELSE CASE stmt.t = "And" -> compile_stmt(compile_stmt(g, stmt.s1), stmt.s2)
           [] stmt.t = "Or" ->
                LET cp_pc == Len(g.code)
                    g1 == compile_stmt(create_checkpoint(g), stmt.s1)
                    g2 == set_target(g1, cp_pc, cp_target_offset(g1, cp_pc))
                    jump_pc == Len(g2.code)
                    g3 == compile_stmt(Emit(g2, <<Jump(0)>>), stmt.s2)
                IN  IF g1.panic # "" THEN g1
                    ELSE IF g3.panic # "" THEN g3
                    ELSE set_target(g3, jump_pc, jump_target_offset(g3, jump_pc))
           [] stmt.t = "If" -> [g EXCEPT !.panic = "not implemented yet!"]
           [] stmt.t = "Unify" ->
                Emit(g, compile_expr(stmt.e1) \o compile_expr(stmt.e2) \o <<Unify>>)
           [] stmt.t = "Call" ->
                Emit(g, compile_exprs_rev(stmt.args, Len(stmt.args))
                        \o <<Call(PredSig(stmt.p, Len(stmt.args)))>>)
           [] stmt.t = "Fail" -> Emit(g, <<Fail>>)
           [] stmt.t = "True" -> g

(* the elements of a set of numbers as a sequence; a HashSet iterates in   *)
(* an unspecified order, here ascending                                    *)
RECURSIVE SortedSeq(_)
SortedSeq(S) ==
    IF S = {} THEN <<>>
    ELSE LET m == CHOOSE x \in S : \A y \in S : x <= y
         IN  <<m>> \o SortedSeq(S \ {m})

RECURSIVE init_code(_, _)
init_code(locals, i) ==
    IF i > Len(locals) THEN <<>>
    ELSE <<Fresh, Store(locals[i])>> \o init_code(locals, i + 1)

IRGen_new == [ir_code |-> EmptyMap, label_counter |-> 0, panic |-> ""]

(* a faulty variant of compile_pred: no check of the predicate or of the   *)
(* signature; the code compiled replaces what the signature had            *)
compile_pred_unchecked(ig, pred_def) ==
    LET sig == PredDef_sig(pred_def)
        g0 == [code |-> <<>>, label_counter |-> ig.label_counter, panic |-> ""]
        g1 == compile_stmt(compile_params(g0, pred_def.params, 1), pred_def.body)
    IN  IF ig.panic # "" THEN ig
        ELSE IF g1.panic # "" THEN [ig EXCEPT !.panic = g1.panic]
        ELSE [ig EXCEPT !.ir_code = MapUpdate(@, sig, g1.code),
                        !.label_counter = g1.label_counter]

compile_pred(ig, pred_def) ==
    LET sig == PredDef_sig(pred_def)
    IN  IF ig.panic # "" THEN ig
        ELSE IF pred_def.name.sys
        THEN [ig EXCEPT !.panic = "Trying to define the system predicate in user code!"]
        ELSE IF sig \in DOMAIN ig.ir_code
        THEN [ig EXCEPT !.panic = "Trying to redefine the predicate in user code!"]
        ELSE LET arity == Len(pred_def.params)
                 g0 == [code |-> <<>>, label_counter |-> ig.label_counter, panic |-> ""]
                 g1 == compile_stmt(compile_params(g0, pred_def.params, 1), pred_def.body)
                 body == IF pred_def.name.name = "main" /\ arity = 0
                         THEN Append(g1.code, Halt) ELSE g1.code
                 used_locals == {body[i].n : i \in {j \in 1..Len(body) : body[j].op = "Load"}}
                 ir_code == init_code(SortedSeq(used_locals), 1) \o body
             IN  IF g1.panic # "" THEN [ig EXCEPT !.panic = g1.panic]
                 ELSE [ig EXCEPT !.ir_code = MapUpdate(@, sig, ir_code),
                                 !.label_counter = g1.label_counter]

RECURSIVE compile_program_from(_, _, _)
compile_program_from(ig, prog, i) ==
    IF i > Len(prog) THEN ig
    ELSE compile_program_from(compile_pred(ig, prog[i]), prog, i + 1)

compile_program(ig, prog) == compile_program_from(ig, prog, 1)

(* the text of ir::Program; main gets one more Halt *)
get_ir_program(ig) ==
    IF MainSig \in DOMAIN ig.ir_code
    THEN [ig.ir_code EXCEPT ![MainSig] = Append(@, Halt)]
    ELSE ig.ir_code

-----------------------------------------------------------------------------
(* main.rs: the lowering pipeline of compile_stmt, on a whole program *)

lowered_ast(input_ast) ==
    IdempotentElim_transform(
        EnumerateVariables_transform(
            UnderscoreElim_transform(
                ConsolidateDefs_transform(input_ast))))

Compile(input_ast) == compile_program(IRGen_new, lowered_ast(input_ast))

-----------------------------------------------------------------------------
(* Source programs, as the parser builds them (parser.rs: a conjunction is *)
(* folded from True), compiled through the pipeline                        *)

SysPrint == Sys("print", 1)
VarX == Expr_PV("X")

Conj2(a, b) == Stmt_And(Stmt_And(Stmt_True, a), b)
Conj3(a, b, c) == Stmt_And(Stmt_And(Stmt_And(Stmt_True, a), b), c)
Main(body) == PredDef(User("main"), <<>>, body)

(* main :- true.   and   main :- fail. *)
SrcTrue == <<Main(Stmt_True)>>
SrcFail == <<Main(Stmt_And(Stmt_True, Stmt_Fail))>>
(* main :- X = foo, sys:print/1(X). *)
SrcPrint == <<Main(Conj2(Stmt_Unify(VarX, Expr_Atom("foo")),
                         Stmt_Call(SysPrint, <<VarX>>)))>>
(* main :- (X = foo ; X = bar), sys:print/1(X), fail. *)
SrcOr == <<Main(Conj3(Stmt_Or(Stmt_And(Stmt_True, Stmt_Unify(VarX, Expr_Atom("foo"))),
                              Stmt_And(Stmt_True, Stmt_Unify(VarX, Expr_Atom("bar")))),
                      Stmt_Call(SysPrint, <<VarX>>),
                      Stmt_Fail))>>
(* p(a). p(b). main :- p(X), sys:print/1(X), fail. *)
SrcClauses == <<PredDef(User("p"), <<Expr_Atom("a")>>, Stmt_True),
                PredDef(User("p"), <<Expr_Atom("b")>>, Stmt_True),
                Main(Conj3(Stmt_Call(User("p"), <<VarX>>),
                           Stmt_Call(SysPrint, <<VarX>>),
                           Stmt_Fail))>>
(* main :- f(a) = g(a). *)
SrcClash == <<Main(Stmt_And(Stmt_True,
                Stmt_Unify(Expr_Ctor("f", <<Expr_Atom("a")>>),
                           Expr_Ctor("g", <<Expr_Atom("a")>>))))>>

(* s. r :- s, a = a. main :- r, r. *)
SrcCalls == <<PredDef(User("s"), <<>>, Stmt_True),
              PredDef(User("r"), <<>>,
                      Conj2(Stmt_Call(User("s"), <<>>),
                            Stmt_Unify(Expr_Atom("a"), Expr_Atom("a")))),
              Main(Conj2(Stmt_Call(User("r"), <<>>), Stmt_Call(User("r"), <<>>)))>>

ProgTrue == get_ir_program(Compile(SrcTrue))
ProgFail == get_ir_program(Compile(SrcFail))
ProgPrint == get_ir_program(Compile(SrcPrint))
ProgOr == get_ir_program(Compile(SrcOr))
ProgClauses == get_ir_program(Compile(SrcClauses))
ProgClash == get_ir_program(Compile(SrcClash))
ProgCalls == get_ir_program(Compile(SrcCalls))

(* Programs<usize> handed to IRGen directly, one definition per signature: *)
(* q(X, b) :- true.   main :- q(a, Y).                                     *)
AstArgs == <<PredDef(User("q"), <<Expr_PV(0), Expr_Atom("b")>>, Stmt_True),
             Main(Stmt_Call(User("q"), <<Expr_Atom("a"), Expr_PV(0)>>))>>
ProgArgs == get_ir_program(compile_program(IRGen_new, AstArgs))

(* VM::next never executes index 0 of a predicate, and compile_pred emits  *)
(* no Ret: the same code with one instruction put in front of every        *)
(* predicate and Ret put after every predicate but main                    *)
Linked(text) ==
    [sig \in DOMAIN text |->
        <<Jump(0)>> \o text[sig] \o (IF sig = MainSig THEN <<>> ELSE <<Ret>>)]

-----------------------------------------------------------------------------
(* Instruction streams written by hand for VM::new, which takes any        *)
(* Program; index 0 of every predicate holds Halt and is never executed    *)

Sig0(name) == PredSig(User(name), 0)
CallSys == Call(PredSig(SysPrint, 1))
Push(a) == PushValue(Atom(a))

(* two choice points, a Fail and a failing Unify *)
HandBacktrack ==
    MainSig :> << Halt, Fresh, Store(0),
                  MkCheckpoint(1, 15), MkCheckpoint(2, 5),
                  Load(0), Push("foo"), Unify, Push("junk"), Fail,
                  Load(0), Push("bar"), Unify, Load(0), CallSys,
                  Push("a"), Push("b"), Unify, Halt,
                  Load(0), CallSys, Fail, Halt >>

(* a choice point made inside a callee and resumed after its return *)
HandCalleeChoice ==
    MainSig :> << Halt, Fresh, Store(0), Load(0), Call(Sig0("p")),
                  Push("x"), CallSys, Fail, Halt >>
    @@ Sig0("p") :> << Halt, MkCheckpoint(1, 3), Push("a"), CallSys, Ret,
                       Push("b"), CallSys, Ret >>

(* calls that return: two from the same frame, one nested, bindings made   *)
(* by the callee                                                           *)
HandCallRet ==
    MainSig :> << Halt, Fresh, Store(0), Push("arg"), Call(Sig0("q")),
                  Load(0), CallSys, Call(Sig0("q")), Pop, Pop, Dup, Halt >>
    @@ Sig0("q") :> << Halt, Fresh, Store(0), Load(0), Push("a"), Unify,
                       Call(Sig0("r")), Load(0), Ret >>
    @@ Sig0("r") :> << Halt, Push("k"), Dup, Unify, Ret >>

(* f(X, b) = f(a, Y), then print both *)
HandUnify ==
    MainSig :> << Halt, Fresh, Store(0), Fresh, Store(1),
                  Load(0), Push("b"), Construct("f", 2),
                  Push("a"), Load(1), Construct("f", 2), Unify,
                  Load(0), CallSys, Load(1), CallSys,
                  PushValue(Num(7)), Load(0), Construct("g", 2), CallSys, Halt >>

(* a call of a predicate the text does not hold; Det and DetUntil; a call  *)
(* that never returns; a built-in that does not exist                      *)
HandMissing == MainSig :> << Halt, Call(Sig0("nowhere")), Halt >>
HandDet == MainSig :> << Halt, Jump(1), Det(1), DetUntil(1), Halt >>
HandLoop ==
    MainSig :> << Halt, Call(Sig0("loop")), Halt >>
    @@ Sig0("loop") :> << Halt, Call(Sig0("loop")), Ret >>
HandNoBuiltin == MainSig :> << Halt, Push("a"), Call(PredSig(Sys("write", 1), 1)), Halt >>
HandRetMain == MainSig :> << Halt, Pop, Ret, Halt >>

(* a logic variable made on a branch that fails, and one made after the    *)
(* checkpoint is restored; index 5 is the checkpoint's resume PC           *)
HandFreshBacktrack ==
    MainSig :> << Halt, MkCheckpoint(1, 4), Fresh, Store(0), Fail, Halt,
                  Fresh, Store(1), Load(1), CallSys, Call(Sig0("v")), Fresh, Halt >>
    @@ Sig0("v") :> << Halt, Fresh, Pop, Ret >>

(* main :- t, q(a).  compiled through the pipeline, with callees that     *)
(* leave their operand stack alone and return                              *)
SrcCallArg == <<Main(Conj2(Stmt_Call(User("t"), <<>>),
                           Stmt_Call(User("q"), <<Expr_Atom("a")>>)))>>
HandCalleeReturns ==
    get_ir_program(Compile(SrcCallArg))
    @@ PredSig(User("q"), 1) :> << Halt, Ret >>
    @@ Sig0("t") :> << Halt, Ret >>

Programs ==
    { ProgTrue, ProgFail, ProgPrint, ProgOr, ProgClauses, ProgClash, ProgArgs,
      ProgCalls, Linked(ProgCalls),
      Linked(ProgFail), Linked(ProgClash),
      Linked(ProgPrint), Linked(ProgOr), Linked(ProgArgs),
      HandBacktrack, HandCalleeChoice, HandCallRet, HandUnify,
      HandMissing, HandDet, HandLoop, HandNoBuiltin, HandRetMain,
      HandFreshBacktrack, HandCalleeReturns }

-----------------------------------------------------------------------------
(* parser.rs: var and atom.  An input is a sequence of characters (strings *)
(* of length one); a result is Ok((rest, out)) or Err                      *)

Uppercase == {"A", "C", "X"}      \* char::is_uppercase on the characters used
Lowercase == {"a", "b", "d"}      \* char::is_lowercase
Digits == {"1"}
is_alphanumeric(c) == c \in Uppercase \cup Lowercase \cup Digits

ParseOk(rest, out) == [ok |-> TRUE, rest |-> rest, out |-> out]
ParseErr == [ok |-> FALSE, rest |-> <<>>, out |-> <<>>]

(* take_while1!: the longest prefix of characters that satisfy the test,   *)
(* an error when it is empty                                               *)
RECURSIVE take_while(_, _)
take_while(input, i) ==
    IF i <= Len(input) /\ (is_alphanumeric(input[i]) \/ input[i] = "_")
    THEN take_while(input, i + 1)
    ELSE i - 1
alnum_or_underscore(input) ==
    LET n == take_while(input, 1)
    IN  IF n = 0 THEN ParseErr
        ELSE ParseOk(SubSeq(input, n + 1, Len(input)), SubSeq(input, 1, n))

starts_with(str, prefix) ==
    Len(str) >= Len(prefix) /\ SubSeq(str, 1, Len(prefix)) = prefix

(* a faulty variant of var: two leading underscores are accepted *)
var_accepts_double_underscore(input) ==
    LET r == alnum_or_underscore(input)
    IN  IF ~r.ok THEN ParseErr
        ELSE IF r.out[1] \in Uppercase THEN r
        ELSE IF starts_with(r.out, <<"_">>) THEN r
        ELSE ParseErr

(* map_opt!(alnum_or_underscore, ...): None makes the parser fail *)
var(input) ==
    LET r == alnum_or_underscore(input)
    IN  IF ~r.ok THEN ParseErr
        ELSE IF r.out[1] \in Uppercase THEN r
        ELSE IF starts_with(r.out, <<"_">>) /\ ~starts_with(r.out, <<"_", "_">>) THEN r
        ELSE ParseErr

(* quoted_atom starts with tag!("'"), which fails on an input that does    *)
(* not start with a quote; no input of the model does                      *)
quoted_atom(input) == ParseErr

(* alt!(quoted_atom | map_opt!(alnum_or_underscore, ...)) *)
atom(input) ==
    LET q == quoted_atom(input)
        r == alnum_or_underscore(input)
    IN  IF q.ok THEN q
        ELSE IF ~r.ok THEN ParseErr
        ELSE IF r.out[1] \in Lowercase THEN r
        ELSE ParseErr

-----------------------------------------------------------------------------
(* The driver: VM::new, VM::step, VM::run *)

UIdle == ustate = State_new /\ ulast = <<>>
LAIdle == heap = EmptyMap /\ logical = EmptyMap
TIdle == ast = <<>> /\ prev = <<>> /\ pass = <<>>
CIdle == irgen = IRGen_new /\ irlast = <<>> /\ irtext = <<>>
PIdle == pin = <<>> /\ pvar = <<>> /\ patom = <<>>

VM_new(text) ==
    /\ program = text
    /\ state = <<State_new>>
    /\ panicked = ""
    /\ output = <<>>
    /\ trace = <<>>
    /\ running = FALSE
    /\ stepcalls = 0
    /\ shadow = <<>>
    /\ frames = <<State_new.local_state.frame_depth>>
    /\ minted = <<>>

Init == (\E text \in Programs : VM_new(text)) /\ UIdle /\ LAIdle /\ TIdle /\ CIdle /\ PIdle

(* whether a step from s fetches an instruction, and which *)
Fetches(text, s) ==
    /\ s.local_state.predicate \in DOMAIN text
    /\ s.pc + 1 < Len(text[s.local_state.predicate])
Fetched(text, s) == text[s.local_state.predicate][s.pc + 2]

(* the caller frames: pushed by a Call of a user predicate, popped by a Ret *)
ShadowAfter(text, s) ==
    IF ~Fetches(text, s) THEN shadow
    ELSE LET insn == Fetched(text, s)
         IN  IF insn.op = "Call" /\ ~insn.sig.pred.sys
             THEN Append(shadow, [locals |-> s.local_state.locals,
                                  predicate |-> s.local_state.predicate,
                                  frame_depth |-> s.local_state.frame_depth,
                                  call_index |-> s.pc + 1,
                                  bindings |-> s.bindings])
             ELSE IF insn.op = "Ret" /\ shadow # <<>>
             THEN SubSeq(shadow, 1, Len(shadow) - 1)
             ELSE shadow

(* the frames created: one more when a Call of a user predicate is taken *)
FramesAfter(text, s, st) ==
    IF /\ Fetches(text, s) /\ st # <<>>
       /\ Fetched(text, s).op = "Call" /\ ~Fetched(text, s).sig.pred.sys
    THEN Append(frames, st[1].local_state.frame_depth)
    ELSE frames

(* the ids made: the one of the value a Fresh has just pushed *)
MintedAfter(text, s, st) ==
    IF Fetches(text, s) /\ st # <<>> /\ Fetched(text, s).op = "Fresh"
    THEN Append(minted, st[1].local_state.op_stack[Len(st[1].local_state.op_stack)].id)
    ELSE minted

(* VM::step: if let Some(state) = self.state.take() { self.state = self.next(state) } *)
step(cps) ==
    /\ stepcalls' = stepcalls + 1
    /\ IF state = <<>>
       THEN UNCHANGED <<state, panicked, output, trace, shadow, frames, minted>>
       ELSE LET s == state[1]
                r == VM_next(program, s, cps)
            IN  /\ state' = r.st
                /\ panicked' = r.panic
                /\ output' = output \o r.out
                /\ trace' = IF Fetches(program, s)
                            THEN Append(trace, <<s.local_state.predicate, s.pc + 1>>)
                            ELSE trace
                /\ shadow' = IF cps THEN shadow ELSE ShadowAfter(program, s)
                /\ frames' = FramesAfter(program, s, r.st)
                /\ minted' = MintedAfter(program, s, r.st)

(* a driver calls step *)
Step(cps) ==
    /\ ~running /\ panicked = "" /\ stepcalls < MaxSteps
    /\ step(cps)
    /\ UNCHANGED <<program, running, ustate, ulast, heap, logical, tvars, cvars, pvars>>

(* a driver calls run *)
RunStart ==
    /\ ~running /\ panicked = ""
    /\ running' = TRUE
    /\ UNCHANGED <<program, state, panicked, output, trace, stepcalls, shadow, frames,
                   minted, ustate, ulast, heap, logical, tvars, cvars, pvars>>

(* one iteration of run's loop: the condition holds, step *)
RunStep(cps) ==
    /\ running /\ panicked = "" /\ stepcalls < MaxSteps
    /\ state # <<>> /\ control_ok(program, state[1])
    /\ control(program, state[1]) # Halt
    /\ step(cps)
    /\ UNCHANGED <<program, running, ustate, ulast, heap, logical, tvars, cvars, pvars>>

(* the loop condition indexes the text out of range *)
RunPanic ==
    /\ running /\ panicked = ""
    /\ state # <<>> /\ ~control_ok(program, state[1])
    /\ panicked' = "index out of bounds"
    /\ UNCHANGED <<program, state, output, trace, running, stepcalls, shadow, frames,
                   minted, ustate, ulast, heap, logical, tvars, cvars, pvars>>

(* the loop condition is false: run returns *)
RunExit ==
    /\ running /\ panicked = ""
    /\ \/ state = <<>>
       \/ /\ state # <<>> /\ control_ok(program, state[1])
          /\ control(program, state[1]) = Halt
    /\ running' = FALSE
    /\ UNCHANGED <<program, state, panicked, output, trace, stepcalls, shadow, frames,
                   minted, ustate, ulast, heap, logical, tvars, cvars, pvars>>

Next == Step(FALSE) \/ RunStart \/ RunStep(FALSE) \/ RunPanic \/ RunExit

Spec == Init /\ [][Next]_vars

(* run's loop goes on while its condition holds: once run is called, an    *)
(* iteration, the panic of the condition or the return is taken            *)
SpecRun ==
    /\ Init /\ [][Next]_vars
    /\ WF_vars(RunStep(FALSE)) /\ WF_vars(RunPanic) /\ WF_vars(RunExit)

(* the same machine with MkCheckpoint as section 4.4 specifies it *)
NextCP == Step(TRUE) \/ RunStart \/ RunStep(TRUE) \/ RunPanic \/ RunExit

SpecCP == Init /\ [][NextCP]_vars

-----------------------------------------------------------------------------
(* State::unify driven directly: a State in which two logic variables have *)
(* been made, and pairs of terms pushed and unified one after the other    *)

VMIdle ==
    /\ program = EmptyMap /\ state = <<>> /\ panicked = "" /\ output = <<>>
    /\ trace = <<>> /\ running = FALSE /\ stepcalls = 0 /\ shadow = <<>>
    /\ frames = <<>> /\ minted = <<>>

Leaves == {Atom("a"), Atom("b"), LV(1), LV(2)}
Terms ==
    {Atom("a")}
    \cup {Ctor("f", <<l1, l2>>) : l1 \in Leaves, l2 \in Leaves}
    \cup {Ctor("f", <<l>>) : l \in {Atom("a"), LV(1)}}
    \cup {Ctor("g", <<Atom("a")>>), Ctor("f", <<Ctor("g", <<Atom("a")>>)>>),
          Ctor("f", <<Atom("a"), Atom("b"), Atom("a")>>)}

InitU ==
    /\ VMIdle /\ LAIdle /\ TIdle /\ CIdle /\ PIdle
    /\ ustate = <<fresh_lv(fresh_lv(State_new))>>
    /\ ulast = <<>>

(* e1 = e2: push e1, push e2, unify *)
UnifyTerms ==
    /\ ustate # <<>>
    /\ ustate[1].unify_count < MaxUnions
    /\ \E e1 \in Terms, e2 \in Terms :
        LET s == [ustate[1] EXCEPT !.local_state = push_value(push_value(@, e1), e2)]
            r == unify(s)
        IN  /\ ustate' = r.st
            /\ ulast' = <<[e1 |-> e1, e2 |-> e2, before |-> s.bindings]>>
    /\ UNCHANGED <<vmvars, heap, logical, tvars, cvars, pvars>>

NextU == UnifyTerms

SpecU == InitU /\ [][NextU]_vars

(* the same with variables unified with variables and with a compound that *)
(* holds a variable: union makes no occurs check                           *)
TermsOC ==
    {LV(1), LV(2), Atom("a"), Ctor("f", <<LV(1)>>), Ctor("f", <<Atom("a")>>)}

UnifyTermsOC ==
    /\ ustate # <<>>
    /\ ustate[1].unify_count < MaxUnions
    /\ \E e1 \in TermsOC, e2 \in TermsOC :
        LET s == [ustate[1] EXCEPT !.local_state = push_value(push_value(@, e1), e2)]
            r == unify(s)
        IN  /\ ustate' = r.st
            /\ ulast' = <<[e1 |-> e1, e2 |-> e2, before |-> s.bindings]>>
    /\ UNCHANGED <<vmvars, heap, logical, tvars, cvars, pvars>>

NextOC == UnifyTermsOC

SpecOC == InitU /\ [][NextOC]_vars

-----------------------------------------------------------------------------
(* unification.rs: LinkedArray.  The nodes live in a heap and a Box is a   *)
(* reference to a node ("Use Rc?", line 15): a version is a node id.       *)
(* Arrays are indexed from 0 as in the source.                             *)

Arr(v) == [kind |-> "Arr", v |-> v]
Diff(i, x, a) == [kind |-> "Diff", i |-> i, x |-> x, a |-> a]

ArrLen == 2          \* length of the vector handed to LinkedArray::new
Vals == {0, 1}

NewNode(h) == Cardinality(DOMAIN h) + 1

(* LinkedArray::new *)
LinkedArray_new(v) == 1 :> Arr(v)

(* ops::Index *)
RECURSIVE LinkedArray_index(_, _, _)
LinkedArray_index(h, n, i) ==
    IF h[n].kind = "Arr" THEN h[n].v[i + 1]
    ELSE IF i = h[n].i THEN h[n].x
    ELSE LinkedArray_index(h, h[n].a, i)

(* a faulty variant of update: the old version keeps the new value, not the old *)
LinkedArray_update_keeps_new(h, n, i, x) ==
    LET m == NewNode(h)
    IN  IF h[n].kind = "Arr"
        THEN (m :> Arr([h[n].v EXCEPT ![i + 1] = x])) @@ (n :> Diff(i, x, m)) @@ h
        ELSE (m :> Diff(i, x, n)) @@ h

(* update on the version n: the heap afterwards; the version returned is   *)
(* the node NewNode(h)                                                     *)
LinkedArray_update(h, n, i, x) ==
    LET m == NewNode(h)
    IN  IF h[n].kind = "Arr"
        THEN LET y == h[n].v[i + 1]
             IN  (m :> Arr([h[n].v EXCEPT ![i + 1] = x])) @@ (n :> Diff(i, y, m)) @@ h
        ELSE (m :> Diff(i, x, n)) @@ h

RECURSIVE LinkedArray_reroot(_, _)
LinkedArray_reroot(h, n) ==
    IF h[n].kind = "Diff"
    THEN LET a == h[n].a
             h1 == LinkedArray_reroot(h, a)
             v == h1[a].v
             y == v[h[n].i + 1]
         IN  (n :> Arr([v EXCEPT ![h[n].i + 1] = h[n].x]))
             @@ (a :> Diff(h[n].i, y, n)) @@ h1
    ELSE h

(* the whole array a version reads as *)
Contents(h, n) == [k \in 1..ArrLen |-> LinkedArray_index(h, n, k - 1)]

InitLA ==
    /\ VMIdle /\ UIdle /\ TIdle /\ CIdle /\ PIdle
    /\ \E v \in [1..ArrLen -> Vals] :
        /\ heap = LinkedArray_new(v)
        /\ logical = 1 :> v

(* logical records, for the version update returns, its parent's array     *)
(* with x at i                                                             *)
Update ==
    /\ Cardinality(DOMAIN heap) < MaxVersions
    /\ \E n \in DOMAIN heap, i \in 0..(ArrLen - 1), x \in Vals :
        /\ heap' = LinkedArray_update(heap, n, i, x)
        /\ logical' = (NewNode(heap) :> [logical[n] EXCEPT ![i + 1] = x]) @@ logical
    /\ UNCHANGED <<vmvars, uvars, tvars, cvars, pvars>>

Reroot ==
    /\ \E n \in DOMAIN heap : heap' = LinkedArray_reroot(heap, n)
    /\ UNCHANGED <<logical, vmvars, uvars, tvars, cvars, pvars>>

NextLA == Update \/ Reroot

SpecLA == InitLA /\ [][NextLA]_vars

-----------------------------------------------------------------------------
(* ast/transform.rs driven directly: a Program<String> is handed to        *)
(* ConsolidateDefs, UnderscoreElim and IdempotentElim, each a              *)
(* Transformer<String, String>, in any order                               *)

MaxPasses == 2       \* transformers applied one after the other

TParams ==
    { <<>>,
      <<Expr_Atom("a")>>,
      <<Expr_PV("X"), Expr_Atom("b")>>,
      <<Expr_PV("_"), Expr_Ctor("f", <<Expr_PV("_"), Expr_PV("_G1")>>)>> }
TBodies ==
    { Stmt_True,
      Stmt_And(Stmt_True, Stmt_Fail),
      Stmt_And(Stmt_And(Stmt_True, Stmt_Unify(Expr_PV("X"), Expr_PV("_"))), Stmt_True),
      Stmt_Or(Stmt_Fail, Stmt_Or(Stmt_Unify(Expr_PV("_G1"), Expr_PV("_")), Stmt_Fail)),
      Stmt_If(Stmt_True, Stmt_And(Stmt_True, Stmt_True), Stmt_Fail),
      Stmt_If(Stmt_Or(Stmt_Fail, Stmt_Fail), Stmt_True,
              Stmt_Call(Sys("print", 1), <<Expr_PV("_")>>)),
      Stmt_If(Stmt_Unify(Expr_PV("X"), Expr_Atom("a")),
              Stmt_And(Stmt_Fail, Stmt_True), Stmt_Or(Stmt_True, Stmt_Fail)) }
TClauses == {PredDef(User("p"), ps, b) : ps \in TParams, b \in TBodies}
TPrograms ==
    {<<c>> : c \in TClauses} \cup {<<c1, c2>> : c1 \in TClauses, c2 \in TClauses}

InitT ==
    /\ VMIdle /\ UIdle /\ LAIdle /\ CIdle /\ PIdle
    /\ ast \in TPrograms
    /\ prev = <<>>
    /\ pass = <<>>

(* transformer.transform(ast) *)
Transform(name, result) ==
    /\ Len(pass) < MaxPasses
    /\ ast' = result
    /\ prev' = ast
    /\ pass' = Append(pass, name)
    /\ UNCHANGED <<vmvars, uvars, lavars, cvars, pvars>>

ApplyConsolidateDefs == Transform("ConsolidateDefs", ConsolidateDefs_transform(ast))
ApplyUnderscoreElim == Transform("UnderscoreElim", UnderscoreElim_transform(ast))
ApplyIdempotentElim == Transform("IdempotentElim", IdempotentElim_transform(ast))

NextT == ApplyConsolidateDefs \/ ApplyUnderscoreElim \/ ApplyIdempotentElim

SpecT == InitT /\ [][NextT]_vars

-----------------------------------------------------------------------------
(* ir_gen.rs driven directly: definitions of a Program<usize> are handed   *)
(* to IRGen::compile_pred one after the other, and get_ir_program takes    *)
(* the text out.  A panic aborts the compilation.                          *)

MaxDefs == 3         \* calls of compile_pred on one IRGen

IGDefs ==
    { PredDef(User("main"), <<>>, Stmt_Call(User("q"), <<Expr_Atom("a")>>)),
      PredDef(User("main"), <<>>, Stmt_If(Stmt_True, Stmt_True, Stmt_Fail)),
      PredDef(User("q"), <<Expr_PV(0)>>, Stmt_True),
      PredDef(User("q"), <<Expr_Atom("b")>>, Stmt_Fail),
      PredDef(User("q"), <<>>,
              Stmt_Or(Stmt_Unify(Expr_PV(0), Expr_Atom("a")),
                      Stmt_Call(User("r"), <<>>))),
      PredDef(User("r"), <<>>, Stmt_Call(Sys("print", 1), <<Expr_Atom("a")>>)),
      PredDef(User("main"), <<>>,
              Stmt_Or(Stmt_Unify(Expr_PV(0), Expr_Atom("a")),
                      Stmt_Or(Stmt_Fail, Stmt_Call(Sys("print", 1), <<Expr_PV(0)>>)))),
      PredDef(User("r"), <<Expr_PV(0)>>,
              Stmt_And(Stmt_Or(Stmt_Or(Stmt_True, Stmt_Unify(Expr_PV(0), Expr_Atom("b"))),
                               Stmt_Fail),
                       Stmt_Call(User("q"), <<>>))),
      PredDef(Sys("print", 1), <<Expr_PV(0)>>, Stmt_True) }

InitIG == VMIdle /\ UIdle /\ LAIdle /\ TIdle /\ CIdle /\ PIdle

CompilePred ==
    /\ irgen.panic = "" /\ irtext = <<>>
    /\ Len(irlast) < MaxDefs
    /\ \E pred_def \in IGDefs :
        /\ irgen' = compile_pred(irgen, pred_def)
        /\ irlast' = Append(irlast, pred_def)
    /\ UNCHANGED <<vmvars, uvars, lavars, tvars, irtext, pvars>>

GetIrProgram ==
    /\ irgen.panic = "" /\ irtext = <<>>
    /\ irtext' = <<get_ir_program(irgen)>>
    /\ UNCHANGED <<vmvars, uvars, lavars, tvars, irgen, irlast, pvars>>

NextIG == CompilePred \/ GetIrProgram

SpecIG == InitIG /\ [][NextIG]_vars

-----------------------------------------------------------------------------
(* parser.rs driven directly: var and atom are applied to one input: every *)
(* sequence of at most MaxInput characters of Alphabet, and the inputs of  *)
(* tests::test_var                                                         *)

MaxInput == 4        \* length of the inputs enumerated

Alphabet == {"A", "b", "_", "1", " "}

VALID_VARS ==
    { <<"A">>, <<"A", "b", "C", "d", "A", "A">>,
      <<"A", "b", "_", "_", "C", "_", "d", "A", "A">>,
      <<"_">>, <<"_", "X">>, <<"X">> }

ParserInputs ==
    UNION {[1..n -> Alphabet] : n \in 0..MaxInput}
    \cup {Append(x, " ") : x \in VALID_VARS}
    \cup {<<"A", " ", "b">>, <<"_", "_", " ">>, <<"a", " ", "b">>, <<"_", " ">>}

InitP ==
    /\ VMIdle /\ UIdle /\ LAIdle /\ TIdle /\ CIdle
    /\ pin \in ParserInputs
    /\ pvar = <<>>
    /\ patom = <<>>

ParseVar ==
    /\ pvar = <<>>
    /\ pvar' = <<var(pin)>>
    /\ UNCHANGED <<vmvars, uvars, lavars, tvars, cvars, pin, patom>>

ParseAtom ==
    /\ patom = <<>>
    /\ patom' = <<atom(pin)>>
    /\ UNCHANGED <<vmvars, uvars, lavars, tvars, cvars, pin, pvar>>

NextP == ParseVar \/ ParseAtom

SpecP == InitP /\ [][NextP]_vars

-----------------------------------------------------------------------------
(* Helpers of the properties *)

Last(q) == q[Len(q)]
Front(q) == SubSeq(q, 1, Len(q) - 1)
IsPrefix(p, q) == Len(p) <= Len(q) /\ SubSeq(q, 1, Len(p)) = p

(* the instruction the trace entry e names *)
InsnAt(e) == program[e[1]][e[2] + 1]

(* a call of step is taken on Some(state) and fetches an instruction *)
StepTaken == state # <<>> /\ stepcalls' = stepcalls + 1 /\ Fetches(program, state[1])

(* the step about to be taken from s fails: a Fail, or a Unify whose union *)
(* fails (print, the only built-in, never returns false)                   *)
FailingStep(s) ==
    /\ Fetches(program, s)
    /\ \/ Fetched(program, s).op = "Fail"
       \/ /\ Fetched(program, s).op = "Unify"
          /\ Len(s.local_state.op_stack) >= 2
          /\ ~union(s.bindings, Last(s.local_state.op_stack),
                    s.local_state.op_stack[Len(s.local_state.op_stack) - 1]).ok

-----------------------------------------------------------------------------
(* C1: a failing step taken with a non-empty choice-point stack removes    *)
(* exactly the topmost checkpoint; the frame, call stack, substitution and *)
(* PC of the new state are the ones stored in it; the checkpoints below    *)
(* stay, unchanged and in order.                                           *)
C1_BacktrackRestoresTop ==
    [][ (StepTaken /\ FailingStep(state[1]) /\ state[1].cp_stack # <<>>)
        => /\ state' # <<>>
           /\ panicked' = ""
           /\ state'[1].cp_stack = Front(state[1].cp_stack)
           /\ state'[1].local_state = Last(state[1].cp_stack).local_state
           /\ state'[1].call_stack = Last(state[1].cp_stack).call_stack
           /\ state'[1].bindings = Last(state[1].cp_stack).bindings
           /\ state'[1].pc = Last(state[1].cp_stack).pc ]_vars

(* HandBacktrack after its Fail at index 9, taken with two checkpoints on  *)
(* the stack and X bound to foo: one checkpoint is left and X is unbound   *)
C1_Witness ==
    /\ program = HandBacktrack
    /\ state # <<>>
    /\ trace # <<>> /\ Last(trace) = <<MainSig, 9>>
    /\ Len(state[1].cp_stack) = 1
    /\ state[1].cp_stack[1].label = <<0, 1>>
    /\ state[1].bindings = EmptyMap
    /\ state[1].local_state.op_stack = <<>>

-----------------------------------------------------------------------------
(* C2: a failing step taken with an empty choice-point stack puts the VM   *)
(* in None; None is terminal: a later step leaves it None without          *)
(* executing anything, and run returns.                                    *)
C2_NoneIsTerminal ==
    [][ /\ (StepTaken /\ FailingStep(state[1]) /\ state[1].cp_stack = <<>>)
            => (state' = <<>> /\ panicked' = "")
        /\ (state = <<>> /\ panicked = "")
            => /\ state' = <<>> /\ panicked' = ""
               /\ output' = output /\ trace' = trace
               /\ (running => ~running') ]_vars

(* None reached by a failing Unify, and step called on it afterwards *)
C2_Witness ==
    /\ program = Linked(ProgClash)
    /\ state = <<>> /\ panicked = ""
    /\ trace # <<>> /\ InsnAt(Last(trace)) = Unify
    /\ stepcalls > Len(trace)

-----------------------------------------------------------------------------
(* C3: the first instruction executed after the VM is created is index 0   *)
(* of main/0, and the first executed after Call(User(p), k) is index 0 of  *)
(* p/k.                                                                    *)
C3_StartsAtIndex0 ==
    \A i \in 1..Len(trace) :
        /\ i = 1 => trace[i] = <<MainSig, 0>>
        /\ (i > 1 /\ InsnAt(trace[i - 1]).op = "Call" /\ ~InsnAt(trace[i - 1]).sig.pred.sys)
            => trace[i] = <<InsnAt(trace[i - 1]).sig, 0>>

-----------------------------------------------------------------------------
(* C4: main :- (X = foo ; X = bar), print(X), fail. prints foo, then bar,  *)
(* and then reaches global failure.                                        *)
C4_OrPrintsFooBar ==
    program = ProgOr
        => /\ panicked = ""
           /\ IsPrefix(output, <<"foo", "bar">>)
           /\ state = <<>> => output = <<"foo", "bar">>

-----------------------------------------------------------------------------
(* C5: p(a). p(b). main :- p(X), print(X), fail. prints a, then b, and     *)
(* then reaches global failure.                                            *)
C5_ClausesPrintAB ==
    program = ProgClauses
        => /\ panicked = ""
           /\ IsPrefix(output, <<"a", "b">>)
           /\ state = <<>> => output = <<"a", "b">>

-----------------------------------------------------------------------------
(* C6: each Unify of the callee's parameter code finds, under the          *)
(* parameter it has just pushed, the argument the caller pushed for it:    *)
(* for main :- q(a, Y) and q(X, b), first a and then Y.                    *)
C6_ParamsMeetArgs ==
    (/\ program = Linked(ProgArgs)
     /\ state # <<>>
     /\ state[1].local_state.predicate = PredSig(User("q"), 2)
     /\ Fetches(program, state[1])
     /\ Fetched(program, state[1]) = Unify)
        => LET st == state[1].local_state.op_stack
           IN  /\ Len(st) >= 2
               /\ st[Len(st) - 1] = IF state[1].unify_count = 0 THEN Atom("a") ELSE LV(1)

-----------------------------------------------------------------------------
(* while a callee runs, frame_depth is the caller's plus one *)
C7_CalleeDepth ==
    (state # <<>> /\ shadow # <<>>)
        => state[1].local_state.frame_depth = Last(shadow).frame_depth + 1

(* C7: a call that returns through Ret resumes the caller right after the  *)
(* Call with its locals, predicate and frame_depth as they were just       *)
(* before the Call; while the callee runs, frame_depth is the caller's     *)
(* plus one; the bindings the callee added are still there after the       *)
(* return.                                                                 *)
C7_RetResumesCaller ==
    [][ /\ C7_CalleeDepth
        /\ (StepTaken /\ Fetched(program, state[1]) = Ret /\ shadow # <<>>)
            => /\ state' # <<>>
               /\ state'[1].local_state.locals = Last(shadow).locals
               /\ state'[1].local_state.predicate = Last(shadow).predicate
               /\ state'[1].local_state.frame_depth = Last(shadow).frame_depth
               /\ state'[1].pc = Last(shadow).call_index
               /\ state'[1].bindings = state[1].bindings ]_vars

(* HandCallRet back in main after q's Ret: q (and r below it) unified,     *)
(* and q's variable is still bound to a                                    *)
C7_Witness ==
    /\ program = HandCallRet
    /\ state # <<>>
    /\ trace # <<>> /\ Last(trace) = <<Sig0("q"), 8>>
    /\ state[1].local_state.predicate = MainSig
    /\ state[1].pc = 4
    /\ 2 \in DOMAIN state[1].bindings /\ state[1].bindings[2] = Atom("a")
    /\ state[1].unify_count = 2

-----------------------------------------------------------------------------
(* C8: main :- X = foo, print(X). writes foo, the value X is bound to, and *)
(* nothing else.                                                           *)
C8_PrintWritesFoo ==
    program \in {ProgPrint, Linked(ProgPrint)} => output \in {<<>>, <<"foo">>}

-----------------------------------------------------------------------------
(* find applied through compound terms: the term t stands for under b *)
RECURSIVE resolve(_, _)
resolve(b, t) ==
    LET r == find(b, t)
    IN  IF r.tag = "Ctor"
        THEN Ctor(r.f, [i \in 1..Len(r.args) |-> resolve(b, r.args[i])])
        ELSE r

(* ground instances: an assignment of ground terms to the two variables,   *)
(* the term t under it, and whether it satisfies the bindings b            *)
Ground == {Atom("a"), Atom("b"), Ctor("g", <<Atom("a")>>)}
Assignments == [{1, 2} -> Ground]
RECURSIVE Instance(_, _)
Instance(sigma, t) ==
    CASE t.tag = "LV" -> sigma[t.id]
      [] t.tag = "Ctor" -> Ctor(t.f, [i \in 1..Len(t.args) |-> Instance(sigma, t.args[i])])
      [] OTHER -> t
Satisfies(sigma, b) == \A v \in DOMAIN b : sigma[v] = Instance(sigma, b[v])

SameShape(x, y) ==
    /\ x.tag = "Ctor" /\ y.tag = "Ctor"
    /\ x.f = y.f /\ Len(x.args) = Len(y.args)

(* C9: union on two compound terms with the same functor and arity         *)
(* unifies every pair of corresponding arguments, the first included, and  *)
(* fails when a pair cannot be unified: after a success every pair reads   *)
(* the same term, a failure means no assignment of the variables that      *)
(* satisfies the bindings held before makes the two terms equal; f(X, b) = *)
(* f(a, Y) gives find(X) = a and find(Y) = b, and f(X) = f(a) gives        *)
(* find(X) = a.                                                            *)
C9_UnionUnifiesEveryArgument ==
    (ulast # <<>> /\ SameShape(ulast[1].e1, ulast[1].e2))
        => LET x == ulast[1].e1
               y == ulast[1].e2
               b == ulast[1].before
           IN  /\ ustate # <<>>
                    => /\ \A i \in 1..Len(x.args) :
                            resolve(ustate[1].bindings, x.args[i])
                                = resolve(ustate[1].bindings, y.args[i])
                       /\ \A sigma \in Assignments :
                            Satisfies(sigma, ustate[1].bindings) => Satisfies(sigma, b)
               /\ ustate = <<>>
                    => \A sigma \in Assignments :
                            Satisfies(sigma, b) => Instance(sigma, x) # Instance(sigma, y)
               /\ (b = EmptyMap /\ x = Ctor("f", <<LV(1), Atom("b")>>)
                                /\ y = Ctor("f", <<Atom("a"), LV(2)>>))
                    => /\ ustate # <<>>
                       /\ find(ustate[1].bindings, LV(1)) = Atom("a")
                       /\ find(ustate[1].bindings, LV(2)) = Atom("b")
               /\ (b = EmptyMap /\ x = Ctor("f", <<LV(1)>>) /\ y = Ctor("f", <<Atom("a")>>))
                    => /\ ustate # <<>>
                       /\ find(ustate[1].bindings, LV(1)) = Atom("a")

(* f(X, b) = f(a, Y) has been unified from the empty substitution *)
C9_Witness ==
    /\ ulast # <<>>
    /\ ulast[1].before = EmptyMap
    /\ ulast[1].e1 = Ctor("f", <<LV(1), Atom("b")>>)
    /\ ulast[1].e2 = Ctor("f", <<Atom("a"), LV(2)>>)
    /\ ustate # <<>>
    /\ ustate[1].bindings = (1 :> Atom("a")) @@ (2 :> Atom("b"))
    /\ ustate[1].unify_count = 1

-----------------------------------------------------------------------------
(* C10: versions are persistent: what a version reads at every index is    *)
(* the same before and after any update or reroot of any version; the      *)
(* version update(i, x) returns reads x at i and as its parent elsewhere.  *)
C10_VersionsPersistent ==
    \A n \in DOMAIN heap : Contents(heap, n) = logical[n]

(* version 1 was updated, a descendant differs from it, and version 1 has  *)
(* been made the base again by reroot                                      *)
C10_Witness ==
    /\ Cardinality(DOMAIN heap) = MaxVersions
    /\ heap[1].kind = "Arr"
    /\ \E n \in DOMAIN heap :
        /\ heap[n].kind = "Diff" /\ heap[n].a = 1
        /\ logical[n] # logical[1]
    /\ \E n \in DOMAIN heap : heap[n].kind = "Diff" /\ heap[heap[n].a].kind = "Diff"

-----------------------------------------------------------------------------
(* the logic variables a term holds *)
RECURSIVE VarsOf(_)
VarsOf(t) ==
    CASE t.tag = "LV" -> {t.id}
      [] t.tag = "Ctor" -> UNION {VarsOf(t.args[i]) : i \in 1..Len(t.args)}
      [] OTHER -> {}

(* the variables the binding of v mentions, a representative standing for  *)
(* itself left out; the variable v is bound to directly, if any            *)
Deps(b, v) == IF v \in DOMAIN b /\ b[v] # LV(v) THEN VarsOf(b[v]) ELSE {}
Link(b, v) == IF v \in DOMAIN b /\ b[v] # LV(v) /\ b[v].tag = "LV" THEN {b[v].id} ELSE {}

RECURSIVE ReachDeps(_, _, _)
ReachDeps(b, S, k) ==
    IF k = 0 THEN S ELSE ReachDeps(b, S \cup UNION {Deps(b, w) : w \in S}, k - 1)
RECURSIVE ReachLinks(_, _, _)
ReachLinks(b, S, k) ==
    IF k = 0 THEN S ELSE ReachLinks(b, S \cup UNION {Link(b, w) : w \in S}, k - 1)

(* find with a bound on the bindings it follows: <<r>> when it ends at r   *)
(* within k bindings, <<>> when it does not                                *)
RECURSIVE find_within(_, _, _)
find_within(b, t, k) ==
    IF t.tag = "LV" /\ t.id \in DOMAIN b /\ b[t.id] # t
    THEN IF k = 0 THEN <<>> ELSE find_within(b, b[t.id], k - 1)
    ELSE <<t>>

(* C11 as stated: after any sequence of successful unions from the empty   *)
(* substitution the bindings contain no cycle other than a representative  *)
(* standing for itself: no variable is bound, directly or through other    *)
(* bindings, to a term that holds it.                                      *)
C11_BindingsAcyclic ==
    ustate # <<>>
        => LET b == ustate[1].bindings
           IN  \A v \in DOMAIN b :
                    v \notin ReachDeps(b, Deps(b, v), Cardinality(DOMAIN b))

(* C11: after any sequence of successful unions from the empty             *)
(* substitution the chains of variables bound to variables contain no      *)
(* cycle, so find(t) ends for every term t, after at most as many bindings *)
(* as there are bound variables.                                           *)
C11_FindTerminates ==
    ustate # <<>>
        => LET b == ustate[1].bindings
               n == Cardinality(DOMAIN b)
           IN  /\ \A v \in DOMAIN b : v \notin ReachLinks(b, Link(b, v), n)
               /\ \A t \in TermsOC \cup {LV(3)} :
                    /\ find_within(b, t, n) # <<>>
                    /\ find_within(b, t, n) = <<find(b, t)>>

(* X = Y and then Y = f(X): find follows two bindings from X and ends at   *)
(* f(X), a term that holds X                                               *)
C11_Witness ==
    /\ ustate # <<>>
    /\ ustate[1].unify_count = 2
    /\ ustate[1].bindings = (1 :> LV(2)) @@ (2 :> Ctor("f", <<LV(1)>>))
    /\ find(ustate[1].bindings, LV(1)) = Ctor("f", <<LV(1)>>)
    /\ find_within(ustate[1].bindings, LV(1), 1) = <<>>

-----------------------------------------------------------------------------
(* C12: executing MkCheckpoint(L, D) at PC p pushes one checkpoint,        *)
(* labelled (frame_depth, L), that records the current frame, call stack   *)
(* and substitution and the resume PC p + D, and execution continues with  *)
(* the next instruction.                                                   *)
C12_MkCheckpointPushes ==
    (trace # <<>> /\ InsnAt(Last(trace)).op = "MkCheckpoint")
        => /\ panicked = ""
           /\ state # <<>>
           /\ state[1].pc = Last(trace)[2]
           /\ state[1].local_state.predicate = Last(trace)[1]
           /\ state[1].cp_stack # <<>>
           /\ Last(state[1].cp_stack) =
                [label |-> <<state[1].local_state.frame_depth,
                             InsnAt(Last(trace)).label>>,
                 local_state |-> state[1].local_state,
                 bindings |-> state[1].bindings,
                 pc |-> state[1].pc + InsnAt(Last(trace)).offset,
                 call_stack |-> state[1].call_stack]

-----------------------------------------------------------------------------
(* C13: executing Ret when the call stack is empty ends the run            *)
(* successfully: the VM is left in Some(state), not in None.               *)
C13_RetOnEmptyCallStackSucceeds ==
    [][ (StepTaken /\ Fetched(program, state[1]) = Ret
                   /\ state[1].call_stack = <<>>)
        => (state' # <<>> /\ panicked' = "") ]_vars

-----------------------------------------------------------------------------
(* the VM has executed Halt and stands on it *)
AtHalt ==
    /\ state # <<>> /\ panicked = ""
    /\ trace # <<>>
    /\ Last(trace) = <<state[1].local_state.predicate, state[1].pc>>
    /\ InsnAt(Last(trace)) = Halt

(* C14: once the VM has reached Halt it stays there: a further call of     *)
(* step leaves it in Some(state) with the program counter, the frame, the  *)
(* call stack, the choice-point stack and the substitution unchanged, and  *)
(* run performs no step.                                                   *)
C14_HaltIsFinal ==
    [][ AtHalt => /\ stepcalls' = stepcalls + 1
                        => (state' = state /\ panicked' = "")
                  /\ running => stepcalls' = stepcalls ]_vars

-----------------------------------------------------------------------------
(* the signatures (predicate, arity) that have a clause in the program *)
SigsOf(prog) == {<<prog[i].name, Len(prog[i].params)>> : i \in 1..Len(prog)}

(* the fresh parameters _P1 .. _P<arity> *)
FreshParams(arity) == [i \in 1..arity |-> Expr_PV("_P" \o ToString(i))]

AfterPass(name) == pass # <<>> /\ Last(pass) = name

(* C15: ConsolidateDefs outputs exactly one definition for each signature  *)
(* that has a clause in the input; the definition has the parameters       *)
(* _P1 .. _P<arity>, so its signature is the input signature, and no two   *)
(* output definitions share a signature.                                   *)
C15_OneDefinitionPerSignature ==
    AfterPass("ConsolidateDefs")
        => /\ Len(ast) = Cardinality(SigsOf(prev))
           /\ \A sig \in SigsOf(prev) :
                \E k \in 1..Len(ast) :
                    /\ ast[k].name = sig[1]
                    /\ ast[k].params = FreshParams(sig[2])
           /\ \A k \in 1..Len(ast), j \in 1..Len(ast) :
                PredDef_sig(ast[k]) = PredDef_sig(ast[j]) => k = j

-----------------------------------------------------------------------------
(* the branches of a consolidated body, folded from Fail with Or, and the  *)
(* unifications of a branch's prefix, folded from True with And, in order  *)
RECURSIVE Branches(_)
Branches(body) ==
    IF body.t = "Or" THEN Append(Branches(body.s1), body.s2) ELSE <<>>
RECURSIVE Prefix(_)
Prefix(s) ==
    IF s.t = "And" THEN Append(Prefix(s.s1), s.s2) ELSE <<>>

(* C16: in the body ConsolidateDefs produces, the branch built for each    *)
(* input clause unifies, for every argument position i of the clause, the  *)
(* i-th fresh parameter with the clause's i-th parameter expression,       *)
(* before the clause body; no parameter expression is dropped and the      *)
(* branches are in the source order of the clauses.                        *)
C16_BranchesUnifyEveryParameter ==
    AfterPass("ConsolidateDefs")
        => \A sig \in SigsOf(prev) :
            \E k \in 1..Len(ast) :
                LET br == Branches(ast[k].body)
                    cl == ClausesOf(prev, sig, 1)
                IN  /\ ast[k].name = sig[1]
                    /\ Len(br) = Len(cl)
                    /\ \A j \in 1..Len(cl) :
                        /\ br[j].t = "And"
                        /\ br[j].s2 = cl[j].body
                        /\ Prefix(br[j].s1) =
                            [i \in 1..sig[2] |->
                                Stmt_Unify(FreshParams(sig[2])[i], cl[j].params[i])]

-----------------------------------------------------------------------------
(* a node of one of the forms And(True, s), And(s, True), Or(Fail, s),     *)
(* Or(s, Fail), If(Fail, _, s), If(True, s, _), anywhere in the statement  *)
RECURSIVE HasRedundant(_)
HasRedundant(s) ==
    CASE s.t = "And" ->
            \/ s.s1 = Stmt_True \/ s.s2 = Stmt_True
            \/ HasRedundant(s.s1) \/ HasRedundant(s.s2)
      [] s.t = "Or" ->
            \/ s.s1 = Stmt_Fail \/ s.s2 = Stmt_Fail
            \/ HasRedundant(s.s1) \/ HasRedundant(s.s2)
      [] s.t = "If" ->
            \/ s.s1 = Stmt_Fail \/ s.s1 = Stmt_True
            \/ HasRedundant(s.s1) \/ HasRedundant(s.s2) \/ HasRedundant(s.s3)
      [] OTHER -> FALSE

(* C17: after IdempotentElim, on any input and in particular on the output *)
(* of ConsolidateDefs, no statement node of a predicate body has the form  *)
(* And(True, s), And(s, True), Or(Fail, s), Or(s, Fail), If(Fail, _, s) or *)
(* If(True, s, _), and applying IdempotentElim again changes nothing.      *)
C17_NoRedundancyLeft ==
    AfterPass("IdempotentElim")
        => /\ \A k \in 1..Len(ast) : ~HasRedundant(ast[k].body)
           /\ IdempotentElim_transform(ast) = ast
           /\ Len(ast) = Len(prev)
           /\ \A k \in 1..Len(ast) :
                ast[k].name = prev[k].name /\ ast[k].params = prev[k].params

(* ConsolidateDefs then IdempotentElim on two clauses whose bodies hold    *)
(* redundant nodes at several depths: the two branches are left, the seed  *)
(* Fail and the True prefixes are gone                                     *)
C17_Witness ==
    /\ pass = <<"ConsolidateDefs", "IdempotentElim">>
    /\ Len(ast) = 1
    /\ \E k \in 1..Len(prev) : HasRedundant(prev[k].body)
    /\ ast[1].body =
            Stmt_Or(Stmt_Unify(Expr_PV("X"), Expr_PV("_")),
                    Stmt_If(Stmt_Unify(Expr_PV("X"), Expr_Atom("a")),
                            Stmt_Fail, Stmt_True))

-----------------------------------------------------------------------------
(* the variable occurrences of a program, definition by definition: the    *)
(* parameters, then the body                                               *)
RECURSIVE ProgVars(_, _)
ProgVars(prog, k) ==
    IF k > Len(prog) THEN <<>>
    ELSE Exprs_pvs(prog[k].params, 1) \o Stmt_pvs(prog[k].body)
            \o ProgVars(prog, k + 1)

(* C18: after UnderscoreElim no variable named _ remains; the name given   *)
(* to each _ occurrence differs from the name of every other variable      *)
(* occurrence of the program, generated or not; the variables not named _  *)
(* keep their names.                                                       *)
C18_UnderscoreNamesAreFresh ==
    AfterPass("UnderscoreElim")
        => LET before == ProgVars(prev, 1)
               after == ProgVars(ast, 1)
           IN  /\ Len(after) = Len(before)
               /\ \A i \in 1..Len(after) :
                    /\ after[i] # "_"
                    /\ before[i] # "_" => after[i] = before[i]
                    /\ before[i] = "_"
                        => \A j \in 1..Len(after) : j # i => after[j] # after[i]

-----------------------------------------------------------------------------
(* C19: compile_pred aborts with a fatal error, adding no code, when the   *)
(* definition's predicate is a system predicate or when code for the same  *)
(* signature has already been compiled; the code of the definitions        *)
(* compiled before is unchanged.                                           *)
C19_CompilePredRejects ==
    [][ irlast' # irlast
        => LET pred_def == Last(irlast')
           IN  (pred_def.name.sys \/ PredDef_sig(pred_def) \in DOMAIN irgen.ir_code)
                => /\ irgen'.panic # ""
                   /\ irgen'.ir_code = irgen.ir_code
                   /\ irtext' = <<>> ]_vars

(* q/1 compiled, main/0 compiled, then a second definition of q/1 handed   *)
(* in: the compilation has aborted and the text holds the first two        *)
C19_Witness ==
    /\ Len(irlast) = 3
    /\ irlast[1] = PredDef(User("q"), <<Expr_PV(0)>>, Stmt_True)
    /\ irlast[3] = PredDef(User("q"), <<Expr_Atom("b")>>, Stmt_Fail)
    /\ irgen.panic = "Trying to redefine the predicate in user code!"
    /\ DOMAIN irgen.ir_code = {PredSig(User("q"), 1), MainSig}
    /\ irgen.ir_code[PredSig(User("q"), 1)] = <<Fresh, Store(0), Load(0), Unify>>

-----------------------------------------------------------------------------
(* C20: no program the compiler hands out holds a Call of a user signature *)
(* that is missing from its text: compiling such a program is a fatal      *)
(* error.                                                                  *)
C20_NoCallOfMissingSignature ==
    irtext # <<>>
        => \A sig \in DOMAIN irtext[1] :
            \A i \in 1..Len(irtext[1][sig]) :
                LET insn == irtext[1][sig][i]
                IN  (insn.op = "Call" /\ ~insn.sig.pred.sys)
                        => insn.sig \in DOMAIN irtext[1]

-----------------------------------------------------------------------------
(* the number of operand-stack values an instruction consumes *)
Consumes(insn) ==
    CASE insn.op = "Unify" -> 2
      [] insn.op = "Construct" -> insn.n
      [] insn.op \in {"Store", "Pop", "Dup"} -> 1
      [] OTHER -> 0

(* C21: a step that executes Unify, Construct, Store, Pop or Dup on an     *)
(* operand stack holding fewer values than the instruction consumes aborts *)
(* with a fatal error: the VM is not left in a state to continue from.     *)
C21_UnderflowAborts ==
    [][ (/\ StepTaken
         /\ Fetched(program, state[1]).op \in {"Unify", "Construct", "Store", "Pop", "Dup"}
         /\ Len(state[1].local_state.op_stack) < Consumes(Fetched(program, state[1])))
        => (panicked' # "" /\ state' = <<>>) ]_vars

-----------------------------------------------------------------------------
(* the texts the compiler produced, as get_ir_program hands them out *)
CompiledPrograms ==
    {ProgTrue, ProgFail, ProgPrint, ProgOr, ProgClauses, ProgClash, ProgArgs,
     ProgCalls}

(* the local slots a predicate's code loads *)
UsedLocals(code) == {code[i].n : i \in {j \in 1..Len(code) : code[j].op = "Load"}}

(* the frame has every slot of its predicate's code in place, each holding *)
(* a logic variable of its own                                             *)
LocalsInitialised(text, ls) ==
    LET used == UsedLocals(text[ls.predicate])
    IN  /\ used \subseteq DOMAIN ls.locals
        /\ \A n \in used : ls.locals[n].tag = "LV"
        /\ \A n \in used, m \in used : ls.locals[n] = ls.locals[m] => n = m

(* C22: while a compiled program runs, every Store of a prologue finds a   *)
(* value to pop, no Load(n) reads a slot that is not set, and every        *)
(* instruction fetched past the prologue (two instructions per slot the    *)
(* code loads) finds each of these slots holding a logic variable of its   *)
(* own.                                                                    *)
C22_LocalsInitialisedByPrologue ==
    [][ (program \in CompiledPrograms /\ StepTaken)
        => LET ls == state[1].local_state
               insn == Fetched(program, state[1])
               prologue == 2 * Cardinality(UsedLocals(program[ls.predicate]))
           IN  /\ insn.op = "Store" => ls.op_stack # <<>>
               /\ insn.op = "Load" => insn.n \in DOMAIN ls.locals
               /\ state[1].pc + 1 >= prologue => LocalsInitialised(program, ls) ]_vars

-----------------------------------------------------------------------------
(* C23: in every predicate the compiler has produced, the index i + D of   *)
(* each MkCheckpoint(L, D) or Jump(D) at index i is at least 0 and less    *)
(* than the length of the predicate's instruction list, also where a       *)
(* disjunction ends the body of a predicate other than main/0.             *)
C23_TargetsInsidePredicate ==
    \A sig \in DOMAIN irgen.ir_code :
        LET code == irgen.ir_code[sig]
        IN  \A i \in 1..Len(code) :
                code[i].op \in {"MkCheckpoint", "Jump"}
                    => /\ (i - 1) + code[i].offset >= 0
                       /\ (i - 1) + code[i].offset < Len(code)

-----------------------------------------------------------------------------
(* the printed form section 6 gives a term: f(a1,...,ak), f alone when     *)
(* k = 0, an integer in decimal, a logic variable as _LV<id>               *)
RECURSIVE Printed(_)
RECURSIVE PrintedArgs(_, _)
Printed(v) ==
    CASE v.tag = "Atom" -> v.a
      [] v.tag = "LV" -> "_LV" \o ToString(v.id)
      [] v.tag = "Num" -> ToString(v.n)
      [] v.tag = "Ctor" ->
            IF Len(v.args) = 0 THEN v.f
            ELSE v.f \o "(" \o PrintedArgs(v.args, 1) \o ")"
PrintedArgs(args, i) ==
    IF i = Len(args) THEN Printed(args[i])
    ELSE Printed(args[i]) \o "," \o PrintedArgs(args, i + 1)

(* C24: what print/1 writes for a term is its printed form: a compound     *)
(* with arguments as f(a1,...,ak), the arguments in order and separated by *)
(* commas, a compound without arguments as f, an integer in decimal and a  *)
(* logic variable as _LV<id>.                                              *)
C24_PrintedForm ==
    [][ (/\ StepTaken
         /\ Fetched(program, state[1]) = CallSys
         /\ state[1].local_state.op_stack # <<>>)
        => output' = Append(output, Printed(Last(state[1].local_state.op_stack))) ]_vars

-----------------------------------------------------------------------------
(* C25: frame_depth identifies a frame: no two frames created during one   *)
(* execution, two successive calls from the same caller included, have the *)
(* same frame_depth.                                                       *)
C25_FrameDepthIsUnique ==
    \A i \in 1..Len(frames), j \in 1..Len(frames) :
        frames[i] = frames[j] => i = j

-----------------------------------------------------------------------------
(* the identifier an input starts with: its longest prefix of letters,     *)
(* digits and underscores                                                  *)
IdChars == Uppercase \cup Lowercase \cup Digits \cup {"_"}
IdLen(input) ==
    CHOOSE n \in 0..Len(input) :
        /\ \A i \in 1..n : input[i] \in IdChars
        /\ n < Len(input) => input[n + 1] \notin IdChars
Identifier(input) == SubSeq(input, 1, IdLen(input))

(* C26: var accepts the identifier its input starts with exactly when the  *)
(* identifier starts with an uppercase letter or with one underscore not   *)
(* followed by a second one; it then returns the whole identifier and      *)
(* leaves the rest of the input as it is; A, AbCdAA, Ab__C_dAA, _, _X and  *)
(* X are accepted and __ is rejected; atom rejects an identifier that      *)
(* starts with an underscore, and no identifier is accepted by both.       *)
C26_VarAndAtomIdentifiers ==
    LET id == Identifier(pin)
    IN  /\ pvar # <<>>
            => /\ pvar[1].ok <=>
                    /\ id # <<>>
                    /\ \/ id[1] \in Uppercase
                       \/ id[1] = "_" /\ (Len(id) = 1 \/ id[2] # "_")
               /\ pvar[1].ok => (pvar[1].out = id /\ id \o pvar[1].rest = pin)
               /\ \A x \in VALID_VARS :
                    pin = Append(x, " ") => pvar[1] = ParseOk(<<" ">>, x)
               /\ pin = <<"A", " ", "b">> => pvar[1] = ParseOk(<<" ", "b">>, <<"A">>)
               /\ pin = <<"_", "_", " ">> => ~pvar[1].ok
        /\ patom # <<>>
            => /\ (id # <<>> /\ id[1] = "_") => ~patom[1].ok
               /\ patom[1].ok => (patom[1].out = id /\ id \o patom[1].rest = pin)
        /\ (pvar # <<>> /\ patom # <<>>) => ~(pvar[1].ok /\ patom[1].ok)

(* Ab__C_dAA followed by a space: var has returned the identifier and left *)
(* the space, atom has rejected the input                                  *)
C26_Witness ==
    /\ pin = <<"A", "b", "_", "_", "C", "_", "d", "A", "A", " ">>
    /\ pvar = <<ParseOk(<<" ">>, <<"A", "b", "_", "_", "C", "_", "d", "A", "A">>)>>
    /\ patom # <<>> /\ ~patom[1].ok

-----------------------------------------------------------------------------
(* C27: a Jump(D) executed at index j, as the one emitted after the first  *)
(* alternative of a disjunction with D one more than the length of the     *)
(* second, hands control to index j + D, the instruction that follows the  *)
(* second alternative: the next instruction fetched is that one, none of   *)
(* the second alternative and not the one after it.                        *)
C27_JumpLandsAfterSecondAlternative ==
    [][ (StepTaken /\ Fetched(program, state[1]).op = "Jump")
        => /\ state' # <<>>
           /\ state'[1].local_state.predicate = state[1].local_state.predicate
           /\ state'[1].pc + 1 = (state[1].pc + 1) + Fetched(program, state[1]).offset ]_vars

-----------------------------------------------------------------------------
(* the number of instructions of an expression's and a statement's code *)
RECURSIVE ExprLen(_)
ExprLen(expr) ==
    IF expr.e = "Ctor"
    THEN 1 + Cardinality({<<i, k>> \in (1..Len(expr.args)) \X (1..20) :
                            k <= ExprLen(expr.args[i])})
    ELSE 1
ExprsLen(es) ==
    Cardinality({<<i, k>> \in (1..Len(es)) \X (1..20) : k <= ExprLen(es[i])})
RECURSIVE StmtLen(_)
StmtLen(stmt) ==
    CASE stmt.t = "And" -> StmtLen(stmt.s1) + StmtLen(stmt.s2)
      [] stmt.t = "Or" -> 2 + StmtLen(stmt.s1) + StmtLen(stmt.s2)
      [] stmt.t = "Unify" -> ExprLen(stmt.e1) + ExprLen(stmt.e2) + 1
      [] stmt.t = "Call" -> ExprsLen(stmt.args) + 1
      [] stmt.t = "Fail" -> 1
      [] OTHER -> 0

(* the disjunctions of a statement whose code starts at index base: for    *)
(* each, the index c of its MkCheckpoint, the index of the Jump that       *)
(* follows s1 and the index of the first instruction of s2                 *)
RECURSIVE OrSites(_, _)
OrSites(stmt, base) ==
    CASE stmt.t = "And" ->
            OrSites(stmt.s1, base) \cup OrSites(stmt.s2, base + StmtLen(stmt.s1))
      [] stmt.t = "Or" ->
            {[c |-> base,
              jump |-> base + 1 + StmtLen(stmt.s1),
              s2 |-> base + 2 + StmtLen(stmt.s1)]}
            \cup OrSites(stmt.s1, base + 1)
            \cup OrSites(stmt.s2, base + 2 + StmtLen(stmt.s1))
      [] OTHER -> {}

(* the definition the code of sig was compiled from: the first one handed  *)
(* in with that signature                                                  *)
CompiledFrom(sig) ==
    irlast[CHOOSE k \in 1..Len(irlast) :
                /\ PredDef_sig(irlast[k]) = sig
                /\ \A j \in 1..(k - 1) : PredDef_sig(irlast[j]) # sig]

(* the disjunctions of the code of sig: the body follows the prologue and  *)
(* the parameter code                                                      *)
SitesOf(sig) ==
    LET def == CompiledFrom(sig)
        code == irgen.ir_code[sig]
    IN  OrSites(def.body,
                2 * Cardinality(UsedLocals(code)) + ExprsLen(def.params) + Len(def.params))

(* C28 as stated: in the code compiled from any disjunction, nested or     *)
(* not, the MkCheckpoint at index c has an offset D with c + D the index   *)
(* of the first instruction of s2, the one right after the Jump that       *)
(* follows s1.                                                             *)
C28_CheckpointTargetsSecondAlternative ==
    \A sig \in DOMAIN irgen.ir_code :
        \A site \in SitesOf(sig) :
            LET code == irgen.ir_code[sig]
            IN  /\ code[site.c + 1].op = "MkCheckpoint"
                /\ code[site.jump + 1].op = "Jump"
                /\ site.c + code[site.c + 1].offset = site.s2

(* C28: in the code compiled from any disjunction, nested or not, the      *)
(* MkCheckpoint at index c has an offset D with c + D the index of the     *)
(* Jump that follows s1, the instruction right before the first one of s2. *)
C28_CheckpointTargetsJump ==
    \A sig \in DOMAIN irgen.ir_code :
        \A site \in SitesOf(sig) :
            LET code == irgen.ir_code[sig]
            IN  /\ code[site.c + 1].op = "MkCheckpoint"
                /\ code[site.jump + 1].op = "Jump"
                /\ site.c + code[site.c + 1].offset = site.jump
                /\ site.jump = site.s2 - 1

(* r/1 compiled: a disjunction nested in the first alternative of another, *)
(* after a prologue and a parameter: the outer MkCheckpoint at index 4     *)
(* targets the Jump at 10, the inner one at index 5 the Jump at 6          *)
C28_Witness ==
    /\ PredSig(User("r"), 1) \in DOMAIN irgen.ir_code
    /\ SitesOf(PredSig(User("r"), 1)) =
            {[c |-> 4, jump |-> 10, s2 |-> 11], [c |-> 5, jump |-> 6, s2 |-> 7]}
    /\ irgen.ir_code[PredSig(User("r"), 1)][5] = MkCheckpoint(1, 6)
    /\ irgen.ir_code[PredSig(User("r"), 1)][6].op = "MkCheckpoint"
    /\ irgen.ir_code[PredSig(User("r"), 1)][6].offset = 1

-----------------------------------------------------------------------------
(* the user predicates the code of sig calls, and the ones reached from a  *)
(* set of predicates through k more calls                                  *)
Callees(text, sig) ==
    IF sig \notin DOMAIN text THEN {}
    ELSE {text[sig][i].sig : i \in {j \in 1..Len(text[sig]) :
                text[sig][j].op = "Call" /\ ~text[sig][j].sig.pred.sys}}
RECURSIVE ReachCalls(_, _, _)
ReachCalls(text, S, k) ==
    IF k = 0 THEN S
    ELSE ReachCalls(text, S \cup UNION {Callees(text, sig) : sig \in S}, k - 1)

(* no user predicate calls itself, directly or indirectly *)
NoRecursion(text) ==
    \A sig \in DOMAIN text :
        sig \notin ReachCalls(text, Callees(text, sig), Cardinality(DOMAIN text))

(* run has returned with the VM in None or stopped at Halt *)
RunDone ==
    /\ ~running /\ panicked = ""
    /\ \/ state = <<>>
       \/ /\ state # <<>> /\ control_ok(program, state[1])
          /\ control(program, state[1]) = Halt

(* C29: on a program the compiler produced in which no user predicate      *)
(* calls itself directly or indirectly, run terminates: once it is called  *)
(* it returns, after finitely many steps, with the VM in None or stopped   *)
(* at Halt.                                                                *)
C29_RunTerminates ==
    (running /\ program \in CompiledPrograms /\ NoRecursion(program)) ~> RunDone

-----------------------------------------------------------------------------
(* C30: the counter of logic variables never decreases, not on Ret and not *)
(* when a checkpoint is restored, and every Fresh pushes the variable of   *)
(* the counter's new value: no two Fresh instructions of one execution     *)
(* yield the same id, those executed on an abandoned branch included.      *)
C30_FreshIdsNeverRepeat ==
    [][ /\ (state # <<>> /\ state' # <<>>) => state'[1].gen_idx >= state[1].gen_idx
        /\ (StepTaken /\ Fetched(program, state[1]) = Fresh)
            => /\ state' # <<>>
               /\ state'[1].gen_idx = state[1].gen_idx + 1
               /\ Last(state'[1].local_state.op_stack) = LV(state'[1].gen_idx)
        /\ \A i \in 1..Len(minted'), j \in 1..Len(minted') :
                minted'[i] = minted'[j] => i = j ]_vars

(* HandFreshBacktrack at its end: the variable made before the Fail, the   *)
(* one made after the checkpoint was restored, the one made by the callee  *)
(* and the one made after its Ret                                          *)
C30_Witness ==
    /\ program = HandFreshBacktrack
    /\ state # <<>> /\ state[1].cp_stack = <<>> /\ state[1].call_stack = <<>>
    /\ minted = <<1, 2, 3, 4>>
    /\ output = <<"_LV2">>
    /\ <<MainSig, 4>> \in {trace[i] : i \in 1..Len(trace)}
    /\ <<Sig0("v"), 3>> \in {trace[i] : i \in 1..Len(trace)}

-----------------------------------------------------------------------------
(* C31: in every reachable state the current frame's frame_depth is the    *)
(* number of entries on the call stack, and so is that of every saved      *)
(* frame for the entries below it: 0 in main with an empty call stack, one *)
(* more of both after Call(User), one less of both after Ret, and both     *)
(* together after a checkpoint restore; the same holds inside every        *)
(* checkpoint.                                                             *)
C31_FrameDepthIsCallStackLength ==
    state # <<>>
        => LET s == state[1]
               Aligned(ls, cs) ==
                    /\ ls.frame_depth = Len(cs)
                    /\ \A k \in 1..Len(cs) : cs[k][1].frame_depth = k - 1
           IN  /\ Aligned(s.local_state, s.call_stack)
               /\ \A c \in 1..Len(s.cp_stack) :
                    Aligned(s.cp_stack[c].local_state, s.cp_stack[c].call_stack)

(* HandCalleeChoice after main's Fail: the checkpoint made inside p has    *)
(* been restored after p had returned, and the VM is back in p at depth 1  *)
(* with main's frame on the call stack                                     *)
C31_Witness ==
    /\ program = HandCalleeChoice
    /\ state # <<>>
    /\ trace # <<>> /\ Last(trace) = <<MainSig, 7>>
    /\ state[1].local_state.predicate = Sig0("p")
    /\ state[1].local_state.frame_depth = 1
    /\ Len(state[1].call_stack) = 1
    /\ state[1].call_stack[1][1].predicate = MainSig
    /\ <<Sig0("p"), 4>> \in {trace[i] : i \in 1..Len(trace)}

-----------------------------------------------------------------------------
(* every user predicate the text calls has code in the text *)
AllCallsDefined(text) ==
    \A sig \in DOMAIN text : Callees(text, sig) \subseteq DOMAIN text

(* C32: while run executes a compiled program whose calls all have         *)
(* definitions, every step fetches its instruction at an index inside the  *)
(* instruction list of the current predicate, and so does the loop's       *)
(* condition: a called predicate that has finished its body returns to its *)
(* caller and does not run past the end of its code.                       *)
C32_FetchInsidePredicate ==
    [][ (running /\ program \in CompiledPrograms /\ AllCallsDefined(program))
        => /\ (state # <<>> /\ stepcalls' = stepcalls + 1) => Fetches(program, state[1])
           /\ panicked' \notin {"index out of bounds", "no entry found for key"} ]_vars

-----------------------------------------------------------------------------
(* a stack without its n topmost values *)
DropTop(stack, n) ==
    IF n >= Len(stack) THEN <<>> ELSE SubSeq(stack, 1, Len(stack) - n)

(* C33: the code of a statement leaves the operand stack of its frame as   *)
(* it found it.  The operands of a statement are pushed just before the    *)
(* instruction that ends it, so: a Unify that succeeds takes its two       *)
(* operands off, a system call that succeeds takes its arguments off, and  *)
(* a Ret that returns to a caller leaves the caller's stack without the    *)
(* arguments of the call.                                                  *)
C33_StatementsAreStackNeutral ==
    [][ (StepTaken /\ state' # <<>>)
        => LET s == state[1]
               t == state'[1]
               insn == Fetched(program, s)
               here == s.local_state.op_stack
           IN  /\ (insn.op = "Unify" /\ t.unify_count = s.unify_count + 1)
                    => t.local_state.op_stack = DropTop(here, 2)
               /\ (insn.op = "Call" /\ insn.sig.pred.sys)
                    => t.local_state.op_stack = DropTop(here, insn.sig.arity)
               /\ (insn.op = "Ret" /\ s.call_stack # <<>>)
                    => t.local_state.op_stack
                         = DropTop(Last(s.call_stack)[1].op_stack,
                                   s.local_state.predicate.arity) ]_vars

====
